---- MODULE Spec2Model ----
(***************************************************************************)
(* Rank-agreement scripts of the relevance-labelling study.                *)
(*                                                                         *)
(*   SpecTau  : tau_ap_from_scores (ap_tau_calc.py) applied to every docid *)
(*              set and pair of score functions within the bounds.         *)
(*   SpecPair : one original and one variant judgment file run through the *)
(*              comparison scripts ap_tau_calc.py, relevant_calc.py,       *)
(*              scripts/relevant_calc_2.py and csv_convert/compare.py.     *)
(*   SpecTable: one table of label pairs read by load_rel_columns and      *)
(*              summarize_file (csv_convert/get_kappa.py), summarize_file  *)
(*              (csv_convert/process_relevant/summary.py) and read_labels  *)
(*              (ap_tau_calc.py).                                          *)
(*                                                                         *)
(* Computed floats are modelled as exact rationals [num, den] with         *)
(* den > 0; every value the claims speak of (1.0, -1.0, 1 - 2/(n-1), ...)  *)
(* is exactly representable, so "returns exactly 1.0" is num = den.        *)
(* Parsed labels are counted in halves (label 1.5 is the integer 3), which *)
(* keeps their order and their truncation to int.                          *)
(***************************************************************************)
EXTENDS Integers, Sequences, FiniteSets, TLC

\* ---------------------------------------------------------------- bounds
MaxDocs == 3
MaxScore == 2
MaxRows == 2

DocIds == 1..MaxDocs
Scores == 0..MaxScore

VARIABLES
    pc,         \* position of the run: "call" / "start" before, the script's name after
    D,          \* the docid set handed to tau_ap_from_scores
    s_ref,      \* reference scores, total on D
    s_cmp,      \* comparison scores, total on D
    tau_out,    \* what the call produced: a value or a raised exception
    orig,       \* the original judgment file: docid -> cell of its label column
    variant,    \* the variant judgment file
    overlap,    \* the script's overlap (overlap / merged / common_ids)
    summary_rows, \* the rows collected for the summary CSV
    skip_log,   \* the [SKIP] lines printed
    tau_calls,  \* number of calls of tau_ap_from_scores made by the script
    compare_csv, \* the data rows compare.py wrote
    table,      \* the data rows of an input file: pairs of label cells
    loaded,     \* what the reader kept of the table
    summary,    \* the tuple summarize_file returned
    nist_vals,  \* the reference labels handed to the kappa lines
    llm_vals,   \* the comparison labels handed to the kappa lines
    kappas,     \* the statistics the kappa lines produced
    files,      \* the comparison files a summary script finds, in sorted order
    out_csv,    \* the summary CSV: whether it was written, and its data rows
    error,      \* the exception that ended the run, "none" otherwise
    item,       \* a logged response: its response_text and the text chunks of full_response
    extracted,  \* what the extraction step took as the text, and the label it returned
    log_items,  \* the entries of the response log (LOG_PATH), in file order
    target_csv, \* the CSV to fill (TARGET_CSV) as it is before the run
    DRY_RUN,    \* the DRY_RUN setting of the parser
    docid_to_O, \* the mapping read_logs_collect_O_scores returned
    filled,     \* TARGET_CSV after the run, and whether the run rewrote it
    script,     \* the labelling script that runs: "parts" or "umbrela"
    n_models,   \* len(MODELS)
    n_rows,     \* len(data_rows)
    model_i,    \* position of the loop over MODELS (from 1)
    row_i,      \* position of the loop over data_rows (from 1)
    calls,      \* the bedrock.converse calls issued so far: <<model, row>>, in order
    results,    \* the rows the current model's loop holds in memory (umbrela)
    out_rows,   \* the labelled rows written to the output files
    interrupts, \* the models whose loop a KeyboardInterrupt ended
    OUTPUT_FILE, \* the shared labels file: its lines, or that it does not exist
    instances, \* the running instances of the parts labeler: position and rows left
    clean_in, \* the data rows of the cleaner's INPUT_FILE
    clean_out, \* what the cleaner wrote and counted
    clean_again, \* what the cleaner wrote and counted when run on its own output
    MISSING_CSV, \* the docid cells of the rows of the missing list
    TARGET_ALL_DOCS, \* the docid cells of the data rows of the target file, as they are on disk
    backfill, \* the run of the backfill script: position, existing_docids, calls made
    txt_file, \* a retrieval text file: its Query: lines and document blocks, in order
    parsed, \* the rows the parser returned
    inject_text, \* the passage handed to inject_once, a sequence of characters
    scan, \* the scan of find_between_word_positions: i and positions
    injected, \* what inject_once returned
    retrieve_call, \* the arguments of retrieve_until_min_judged and the ranking the searcher holds
    retrieve_k, \* k of retrieve_until_min_judged
    searches, \* the searches issued so far: depth asked, hits and judged hits returned
    retrieved  \* the hits retrieve_until_min_judged returned

tauVars == <<pc, D, s_ref, s_cmp, tau_out>>
pairVars == <<orig, variant, overlap, summary_rows, skip_log, tau_calls, compare_csv>>
tableVars == <<table, loaded, summary>>
kappaVars == <<nist_vals, llm_vals, kappas>>
mainVars == <<files, out_csv, error>>
extractVars == <<item, extracted>>
fillVars == <<log_items, target_csv, DRY_RUN, docid_to_O, filled>>
labelVars == <<script, n_models, n_rows, model_i, row_i, calls, results, out_rows, interrupts>>
\* what the steps of one specification leave alone besides their own variables
tauRest == <<D, s_ref, s_cmp, tau_out>>
\* the variable groups of the later specifications
partsVars == <<OUTPUT_FILE, instances>>
cleanerVars == <<clean_in, clean_out, clean_again>>
missingVars == <<MISSING_CSV, TARGET_ALL_DOCS, backfill>>
parseVars == <<txt_file, parsed>>
injectVars == <<inject_text, scan, injected>>
retrieveVars == <<retrieve_call, retrieve_k, searches, retrieved>>
laterVars == <<partsVars, cleanerVars, missingVars, parseVars, injectVars, retrieveVars>>
earlierVars == <<tauRest, pairVars, tableVars, kappaVars, mainVars, extractVars, fillVars, labelVars>>
partsFrame == <<earlierVars, cleanerVars, missingVars, parseVars, injectVars, retrieveVars>>
cleanerFrame == <<earlierVars, partsVars, missingVars, parseVars, injectVars, retrieveVars>>
missingFrame == <<earlierVars, partsVars, cleanerVars, parseVars, injectVars, retrieveVars>>
parseFrame == <<earlierVars, partsVars, cleanerVars, missingVars, injectVars, retrieveVars>>
injectFrame == <<earlierVars, partsVars, cleanerVars, missingVars, parseVars, retrieveVars>>
retrieveFrame == <<earlierVars, partsVars, cleanerVars, missingVars, parseVars, injectVars>>
\* the frames of the earlier specifications
kappaFrame == <<tauRest, pairVars, tableVars, mainVars, extractVars, fillVars, labelVars, laterVars>>
mainFrame == <<tauRest, pairVars, tableVars, kappaVars, extractVars, fillVars, labelVars, laterVars>>
extractFrame == <<tauRest, pairVars, tableVars, kappaVars, mainVars, fillVars, labelVars, laterVars>>
fillFrame == <<tauRest, pairVars, tableVars, kappaVars, mainVars, extractVars, labelVars, laterVars>>
labelFrame == <<tauRest, pairVars, tableVars, kappaVars, mainVars, extractVars, fillVars, laterVars>>
extraVars == <<kappaVars, mainVars, extractVars, fillVars, labelVars, laterVars>>
vars == <<tauVars, pairVars, tableVars, extraVars>>

\* ------------------------------------------------------- generic helpers
RECURSIVE Fact(_)
Fact(k) == IF k <= 1 THEN 1 ELSE k * Fact(k - 1)

\* all orders in which the members of a set can be listed
RECURSIVE Perms(_)
Perms(S) ==
    IF S = {} THEN {<<>>}
    ELSE UNION {{<<x>> \o q : q \in Perms(S \ {x})} : x \in S}
OrdersOf == [S \in SUBSET DocIds |-> Perms(S)]
Orders(S) == OrdersOf[S]

\* the members of a set of docids in ascending order: sorted(set(...))
AscendingOf ==
    [S \in SUBSET DocIds |-> CHOOSE q \in Orders(S) : \A i \in 1..(Len(q) - 1) : q[i] < q[i + 1]]
Ascending(S) == AscendingOf[S]

Reverse(q) == [i \in 1..Len(q) |-> q[Len(q) + 1 - i]]

\* ------------------------------------------------- tau_ap_from_scores
\* sort key of line 28/29: the tuple (-s[d], d)
\* (SortKeyNoTieBreak: the key without its docid component)
SortKeyNoTieBreak(s, d) == <<-s[d], 0>>
SortKey(s, d) == <<-s[d], d>>

\* Python tuple comparison k1 < k2
KeyLess(k1, k2) == k1[1] < k2[1] \/ (k1[1] = k2[1] /\ k1[2] < k2[2])

\* Python's sorted(): stable, so an element goes behind every element whose
\* key is not greater than its own.
RECURSIVE InsertByKey(_, _, _)
InsertByKey(q, s, d) ==
    IF q = <<>> THEN <<d>>
    ELSE IF KeyLess(SortKey(s, d), SortKey(s, Head(q)))
         THEN <<d>> \o q
         ELSE <<Head(q)>> \o InsertByKey(Tail(q), s, d)

RECURSIVE Sorted(_, _)
Sorted(docids, s) ==
    IF docids = <<>> THEN <<>>
    ELSE InsertByKey(Sorted(SubSeq(docids, 1, Len(docids) - 1), s), s, docids[Len(docids)])

\* pos_cmp = {d: i for i, d in enumerate(order_cmp)}, 0-based
PosIn(order, d) == (CHOOSE i \in 1..Len(order) : order[i] = d) - 1

\* the test of line 41: dj precedes di in the reference and follows it in the
\* comparison (DiscordantFlipped: the comparison turned round)
DiscordantFlipped(pj, pi) == pj < pi
Discordant(pj, pi) == pj > pi

\* the divisor of line 43: S += c / i
\* (DivisorOne: S += c;  DivisorN: S += c / n)
DivisorOne(i, n) == 1
DivisorN(i, n) == n
Divisor(i, n) == i

\* the guard of line 32 (DegenerateStrict: n < 1 in place of n <= 1)
DegenerateStrict(n) == n < 1
Degenerate(n) == n <= 1

\* c of lines 38-42 for 0-based reference rank i
DiscordCount(order_ref, pos_cmp, i) ==
    Cardinality({j \in 0..(i - 1) : Discordant(pos_cmp[order_ref[j + 1]], pos_cmp[order_ref[i + 1]])})

\* Common denominator of the terms c / i, 1 <= i <= n - 1: S is kept as the
\* integer S * TauDen(n), so the float sum of line 43 is exact here.
TauDen(n) == Fact(n)

\* the loop of lines 35-43 up to reference rank i: S times TauDen(n)
RECURSIVE AccumulateS(_, _, _, _)
AccumulateS(order_ref, pos_cmp, n, i) ==
    IF i < 1 THEN 0
    ELSE AccumulateS(order_ref, pos_cmp, n, i - 1)
         + (DiscordCount(order_ref, pos_cmp, i) * TauDen(n)) \div Divisor(i, n)

\* S of lines 34-43, times TauDen(n)
ScaledS(order_ref, order_cmp, n) ==
    LET pos_cmp == [d \in {order_cmp[k] : k \in 1..n} |-> PosIn(order_cmp, d)]
    IN AccumulateS(order_ref, pos_cmp, n, n - 1)

Value(num, den) == [kind |-> "value", num |-> num, den |-> den]
Raised(what) == [kind |-> "raise", what |-> what]

\* line 28 and line 29 (OrderCmpAscending: line 29 without the minus sign)
OrderRef(docids, sref) == Sorted(docids, sref)
OrderCmpAscending(docids, scmp) == Sorted(docids, [d \in DOMAIN scmp |-> -scmp[d]])
OrderCmp(docids, scmp) == Sorted(docids, scmp)

tau_ap_from_scores(docids, sref, scmp) ==
    LET order_ref == OrderRef(docids, sref)
        order_cmp == OrderCmp(docids, scmp)
        n == Len(order_ref)
    IN IF Degenerate(n) THEN Value(1, 1)
       ELSE IF n - 1 = 0 THEN Raised("ZeroDivisionError")    \* 2.0 / (n - 1)
       ELSE LET S == ScaledS(order_ref, order_cmp, n)
                den == (n - 1) * TauDen(n)
                num == den - 2 * S
            IN IF n - 1 > 0 THEN Value(num, den) ELSE Value(-num, -den)

\* ------------------------------------------------------------- SpecTau
NoResult == [kind |-> "none"]

\* ------------------------------------------------------ judgment files
\* A judgment file holds each docid at most once (a docid is unique within a
\* judgment set), so it is given as docid -> cell, Absent for a docid without
\* a row.  Cells are the raw text of the label column.  Docids are the
\* numbers 1..MaxDocs: they have one digit, so their order as strings
\* (ap_tau_calc.py:49 makes them str) is their order as numbers.
Absent == "<absent>"
Blank == ""
AllCells == {Blank, "n/a", "0", "1", "2", "1.5"}
PairCells == {Blank, "0", "1"}
JudgmentFiles == [DocIds -> PairCells \cup {Absent}]
EmptyFile == [d \in DocIds |-> Absent]

\* a float that may be NaN: a parsed label or a rounded statistic
NaN == [nan |-> TRUE, v |-> 0]
Num(v) == [nan |-> FALSE, v |-> v]
IsNaN(x) == x.nan

PairIdle ==
    /\ orig = EmptyFile
    /\ variant = EmptyFile
    /\ overlap = {}
    /\ summary_rows = <<>>
    /\ skip_log = <<>>
    /\ tau_calls = 0
    /\ compare_csv = <<>>

TableIdle ==
    /\ table = <<>>
    /\ loaded = <<>>
    /\ summary = <<>>

TauIdle ==
    /\ D = {}
    /\ s_ref = <<>>
    /\ s_cmp = <<>>
    /\ tau_out = NoResult

KappaIdle ==
    /\ nist_vals = <<>>
    /\ llm_vals = <<>>
    /\ kappas = <<>>

NotWritten == [written |-> FALSE, rows |-> <<>>]
Written(rows) == [written |-> TRUE, rows |-> rows]

MainIdle ==
    /\ files = <<>>
    /\ out_csv = NotWritten
    /\ error = "none"

ExtractIdle ==
    /\ item = <<>>
    /\ extracted = <<>>

FillIdle ==
    /\ log_items = <<>>
    /\ target_csv = <<>>
    /\ DRY_RUN = FALSE
    /\ docid_to_O = <<>>
    /\ filled = <<>>

LabelIdle ==
    /\ script = "none"
    /\ n_models = 0
    /\ n_rows = 0
    /\ model_i = 0
    /\ row_i = 0
    /\ calls = <<>>
    /\ results = <<>>
    /\ out_rows = <<>>
    /\ interrupts = {}

\* the idle values of the later groups
PartsIdle ==
    /\ OUTPUT_FILE = <<>>
    /\ instances = <<>>

CleanerIdle ==
    /\ clean_in = <<>>
    /\ clean_out = <<>>
    /\ clean_again = <<>>

MissingIdle ==
    /\ MISSING_CSV = <<>>
    /\ TARGET_ALL_DOCS = <<>>
    /\ backfill = <<>>

ParseIdle ==
    /\ txt_file = <<>>
    /\ parsed = <<>>

InjectIdle ==
    /\ inject_text = <<>>
    /\ scan = <<>>
    /\ injected = <<>>

RetrieveIdle ==
    /\ retrieve_call = <<>>
    /\ retrieve_k = 0
    /\ searches = <<>>
    /\ retrieved = <<>>

EarlierIdle ==
    /\ TauIdle
    /\ PairIdle
    /\ TableIdle
    /\ KappaIdle
    /\ MainIdle
    /\ ExtractIdle
    /\ FillIdle
    /\ LabelIdle

\* the other groups while Parts runs
partsRestIdle ==
    /\ EarlierIdle
    /\ CleanerIdle
    /\ MissingIdle
    /\ ParseIdle
    /\ InjectIdle
    /\ RetrieveIdle

\* the other groups while Cleaner runs
cleanerRestIdle ==
    /\ EarlierIdle
    /\ PartsIdle
    /\ MissingIdle
    /\ ParseIdle
    /\ InjectIdle
    /\ RetrieveIdle

\* the other groups while Missing runs
missingRestIdle ==
    /\ EarlierIdle
    /\ PartsIdle
    /\ CleanerIdle
    /\ ParseIdle
    /\ InjectIdle
    /\ RetrieveIdle

\* the other groups while Parse runs
parseRestIdle ==
    /\ EarlierIdle
    /\ PartsIdle
    /\ CleanerIdle
    /\ MissingIdle
    /\ InjectIdle
    /\ RetrieveIdle

\* the other groups while Inject runs
injectRestIdle ==
    /\ EarlierIdle
    /\ PartsIdle
    /\ CleanerIdle
    /\ MissingIdle
    /\ ParseIdle
    /\ RetrieveIdle

\* the other groups while Retrieve runs
retrieveRestIdle ==
    /\ EarlierIdle
    /\ PartsIdle
    /\ CleanerIdle
    /\ MissingIdle
    /\ ParseIdle
    /\ InjectIdle

LaterIdle ==
    /\ PartsIdle
    /\ CleanerIdle
    /\ MissingIdle
    /\ ParseIdle
    /\ InjectIdle
    /\ RetrieveIdle

ExtraIdle ==
    /\ KappaIdle
    /\ MainIdle
    /\ ExtractIdle
    /\ FillIdle
    /\ LabelIdle
    /\ LaterIdle

InitTau ==
    /\ pc = "call"
    /\ D \in SUBSET DocIds
    /\ s_ref \in [D -> Scores]
    /\ s_cmp \in [D -> Scores]
    /\ tau_out = NoResult
    /\ PairIdle
    /\ TableIdle
    /\ ExtraIdle

\* The call of ap_tau_calc.py:89: the docids arrive as sorted(set(...)).
CallTauAp ==
    /\ pc = "call"
    /\ tau_out' = tau_ap_from_scores(Ascending(D), s_ref, s_cmp)
    /\ pc' = "done"
    /\ UNCHANGED <<D, s_ref, s_cmp>>
    /\ UNCHANGED <<pairVars, tableVars, extraVars>>

NextTau == CallTauAp

SpecTau == InitTau /\ [][NextTau]_vars

\* ------------------------------------------------ rationals of the claims
IsValue(r) == r.kind = "value"
RatEq(r, num, den) == IsValue(r) /\ r.num * den = num * r.den
RatLess(r, q) == IsValue(r) /\ IsValue(q) /\ r.num * q.den < q.num * r.den
IsOne(r) == RatEq(r, 1, 1)

HasTie(s) == \E d, e \in DOMAIN s : d # e /\ s[d] = s[e]
NDocs == Cardinality(D)
RefRanking == OrderRef(Ascending(D), s_ref)
CmpRanking == OrderCmp(Ascending(D), s_cmp)

\* C1: every result of tau_ap_from_scores is a number in the closed interval
\* [-1, 1], ties in either score function included.
TauInClosedInterval ==
    pc = "done" =>
        /\ IsValue(tau_out)
        /\ -tau_out.den <= tau_out.num
        /\ tau_out.num <= tau_out.den

WitnessTauInterval ==
    /\ pc = "done" /\ NDocs >= 3
    /\ HasTie(s_ref) /\ HasTie(s_cmp)
    /\ IsValue(tau_out) /\ tau_out.num < 0

\* C2: comparing a score function with itself on two or more docids gives
\* exactly 1.0, with or without ties.
TauIdentityIsOne ==
    (pc = "done" /\ NDocs >= 2 /\ s_cmp = s_ref) => IsOne(tau_out)

WitnessTauIdentity ==
    /\ pc = "done" /\ NDocs >= 3 /\ s_cmp = s_ref
    /\ HasTie(s_ref) /\ ~(\A d, e \in D : s_ref[d] = s_ref[e])
    /\ IsOne(tau_out)

\* C3: when the comparison ranking is the exact reverse of the reference
\* ranking (n >= 2) the result is strictly below 1.0, and for n = 2 it is -1.0.
TauReversalBelowOne ==
    (pc = "done" /\ NDocs >= 2 /\ CmpRanking = Reverse(RefRanking)) =>
        /\ RatLess(tau_out, Value(1, 1))
        /\ NDocs = 2 => RatEq(tau_out, -1, 1)

WitnessTauReversal ==
    /\ pc = "done" /\ NDocs >= 3 /\ CmpRanking = Reverse(RefRanking)
    /\ RatEq(tau_out, -1, 1)

\* C4: on a docid set of size 0 or 1 the call returns exactly 1.0 from the
\* early return: nothing is raised and no quotient by n - 1 is formed.
TauDegenerateIsOne ==
    (pc = "done" /\ NDocs <= 1) => tau_out = Value(1, 1)

WitnessTauDegenerate ==
    pc = "done" /\ NDocs = 1 /\ tau_out = Value(1, 1)

\* a ranking of D by s: score descending, ties by ascending docid
IsRanking(o, s) ==
    /\ Len(o) = NDocs
    /\ {o[i] : i \in 1..Len(o)} = D
    /\ \A i, j \in 1..Len(o) :
        i < j => (s[o[i]] > s[o[j]] \/ (s[o[i]] = s[o[j]] /\ o[i] < o[j]))

\* C5: whatever order the docids of D are supplied in, both rankings are the
\* ranking by score descending and docid ascending, and the result is the one
\* the call produced.
TauDeterministic ==
    pc = "done" =>
        /\ IsRanking(RefRanking, s_ref)
        /\ IsRanking(CmpRanking, s_cmp)
        /\ \A q \in Orders(D) : tau_ap_from_scores(q, s_ref, s_cmp) = tau_out

WitnessTauDeterministic ==
    /\ pc = "done" /\ NDocs >= 3
    /\ HasTie(s_ref) /\ HasTie(s_cmp) /\ s_ref # s_cmp
    /\ IsValue(tau_out) /\ ~IsOne(tau_out)

SwapAt(q, i) ==
    [k \in 1..Len(q) |-> IF k = i THEN q[i + 1] ELSE IF k = i + 1 THEN q[i] ELSE q[k]]
SwapTop(q) == SwapAt(q, 1)
SwapBottom(q) == SwapAt(q, Len(q) - 1)
\* the score functions on D whose ranking is the reference with its last two swapped
BottomSwapped == {s \in [D -> Scores] : OrderCmp(Ascending(D), s) = SwapBottom(RefRanking)}

\* C6: for n >= 3 and a reference without ties, swapping the two top-ranked
\* documents gives 1 - 2/(n-1), swapping the two bottom-ranked ones gives
\* 1 - 2/(n-1)^2, and the former is strictly lower.
TauEarlySwapCostsMore ==
    (pc = "done" /\ NDocs >= 3 /\ ~HasTie(s_ref) /\ CmpRanking = SwapTop(RefRanking)) =>
        /\ RatEq(tau_out, (NDocs - 1) - 2, NDocs - 1)
        /\ \A s \in BottomSwapped :
            LET low == tau_ap_from_scores(Ascending(D), s_ref, s)
            IN /\ RatEq(low, (NDocs - 1) * (NDocs - 1) - 2, (NDocs - 1) * (NDocs - 1))
               /\ RatLess(tau_out, low)

WitnessTauEarlySwap ==
    /\ pc = "done" /\ NDocs >= 3 /\ ~HasTie(s_ref)
    /\ CmpRanking = SwapTop(RefRanking)
    /\ BottomSwapped # {}
    /\ RatEq(tau_out, 0, 1)

\* ---------------------------------------------------- parsing label cells
\* pd.to_numeric(errors="coerce") / the float parse of read_csv: the number
\* (in halves) of a numeric cell, NaN for a blank or any other text.
\* (ToNumericBlankIsZero: a blank read as 0, as fillna(0) would)
ToNumericBlankIsZero(cell) ==
    CASE cell = "0" -> Num(0) [] cell = "1" -> Num(2) [] cell = "2" -> Num(4)
      [] cell = "1.5" -> Num(3) [] cell = Blank -> Num(0) [] OTHER -> NaN
ToNumeric(cell) ==
    CASE cell = "0" -> Num(0) [] cell = "1" -> Num(2) [] cell = "2" -> Num(4)
      [] cell = "1.5" -> Num(3) [] OTHER -> NaN

\* Series.astype(int) on a parsed label: truncation to the integer grade
AsInt(x) == x.v \div 2

\* read_labels of ap_tau_calc.py: the rows of the file, relevance coerced
read_labels(file) == [d \in {e \in DOMAIN file : file[e] # Absent} |-> ToNumeric(file[d])]

\* DataFrame.dropna(subset=["relevance"])
dropna(df) == [d \in {e \in DOMAIN df : ~IsNaN(df[e])} |-> df[d]]

\* set(a.keys()) & set(b.keys())
Overlap(a, b) == a \cap b

\* round(x, 3) of a rational, in thousandths (ties to even, as Python rounds)
Round3(r) ==
    LET scaled == r.num * 1000
        q == scaled \div r.den
        rest == 2 * (scaled - q * r.den)
    IN IF rest > r.den \/ (rest = r.den /\ q % 2 = 1) THEN q + 1 ELSE q

RECURSIVE SumSeq(_)
SumSeq(q) == IF q = <<>> THEN 0 ELSE q[1] + SumSeq(Tail(q))

Abs(x) == IF x < 0 THEN -x ELSE x

\* ------------------------------------------------------ cohen_kappa_score
\* the weight matrix w_mat of sklearn.metrics.cohen_kappa_score, indexed by
\* the positions i, j of two labels in the sorted label list
\* (KappaWeightOneSided: the matrix with its upper triangle zeroed)
KappaWeightOneSided(weights, i, j) ==
    CASE weights = "linear" -> IF i > j THEN i - j ELSE 0
      [] weights = "quadratic" -> IF i > j THEN (i - j) * (i - j) ELSE 0
      [] OTHER -> IF i > j THEN 1 ELSE 0
KappaWeight(weights, i, j) ==
    CASE weights = "linear" -> Abs(i - j)
      [] weights = "quadratic" -> (i - j) * (i - j)
      [] OTHER -> IF i = j THEN 0 ELSE 1

\* sklearn.metrics.cohen_kappa_score as the scripts call it:
\* 1 - sum(w_mat * confusion) / sum(w_mat * expected), where expected is
\* outer(sum0, sum1) / n; the numpy quotient 0 / 0 is NaN, which happens
\* exactly when both raters use one and the same single label.
cohen_kappa_score(y1, y2, weights) ==
    LET n == Len(y1)
        labels == {y1[k] : k \in 1..n} \cup {y2[k] : k \in 1..n}
        idx(v) == Cardinality({u \in labels : u < v})
        observed == SumSeq([k \in 1..n |-> KappaWeight(weights, idx(y1[k]), idx(y2[k]))])
        \* sum over i, j of w[i][j] * sum0[i] * sum1[j]: sum0 counts y2, sum1 counts y1
        expected_n == SumSeq([k \in 1..n |->
                        SumSeq([l \in 1..n |-> KappaWeight(weights, idx(y2[k]), idx(y1[l]))])])
    IN IF expected_n = 0 THEN [kind |-> "nan"]
       ELSE Value(expected_n - observed * n, expected_n)

RoundOrNaN(r) == IF r.kind = "nan" THEN NaN ELSE Num(Round3(r))

\* ------------------------------------------------ ap_tau_calc.py, main loop
\* the test of line 82 (TooFewForTauBelowOne: < 1 in place of < 2)
TooFewForTauBelowOne(n) == n < 1
TooFewForTau(n) == n < 2

ApTauCalc ==
    /\ pc = "start"
    /\ LET s_ref_all == dropna(read_labels(orig))
           s_other_all == dropna(read_labels(variant))
           ov == Overlap(DOMAIN s_ref_all, DOMAIN s_other_all)
           n == Cardinality(ov)
           sr == [d \in ov |-> s_ref_all[d].v]
           sc == [d \in ov |-> s_other_all[d].v]
           tau == tau_ap_from_scores(Ascending(ov), sr, sc)
       IN /\ overlap' = ov
          /\ IF TooFewForTau(n)
             THEN /\ skip_log' = Append(skip_log, [msg |-> "Not enough overlapping docids", n |-> n])
                  /\ UNCHANGED <<D, s_ref, s_cmp, tau_out, tau_calls, summary_rows>>
             ELSE /\ D' = ov /\ s_ref' = sr /\ s_cmp' = sc
                  /\ tau_out' = tau
                  /\ tau_calls' = tau_calls + 1
                  /\ summary_rows' = Append(summary_rows,
                        [n_overlap |-> n,
                         AP_tau |-> IF tau.kind = "value" THEN Round3(tau) ELSE tau.kind])
                  /\ UNCHANGED skip_log
    /\ pc' = "ap_tau_calc"
    /\ UNCHANGED <<orig, variant, compare_csv>>
    /\ UNCHANGED <<tableVars, extraVars>>

\* ---------------------------------------------- relevant_calc.py, main loop
\* pd.read_csv of the two label columns: the cells are numbers or blank, so
\* pandas reads the column as float64 with NaN for the blanks.
read_csv(file) == [d \in {e \in DocIds : file[e] # Absent} |-> ToNumeric(file[d])]

\* pd.merge(..., on="docid", how="inner").dropna(subset=[both labels]): the docids kept
merged_docids(df_orig, df_other) ==
    {d \in DOMAIN df_orig \cap DOMAIN df_other : ~IsNaN(df_orig[d]) /\ ~IsNaN(df_other[d])}

RelevantCalc ==
    /\ pc = "start"
    /\ LET df_orig == read_csv(orig)
           df_other == read_csv(variant)
           merged == merged_docids(df_orig, df_other)
           keys == Ascending(merged)
           n == Len(keys)
           y1 == [k \in 1..n |-> AsInt(df_orig[keys[k]])]
           y2 == [k \in 1..n |-> AsInt(df_other[keys[k]])]
           mae == Value(SumSeq([k \in 1..n |-> Abs(y1[k] - y2[k])]), n)
           kappa == cohen_kappa_score(y1, y2, "none")
       IN /\ overlap' = merged
          /\ IF merged = {}
             THEN /\ skip_log' = Append(skip_log, [msg |-> "No overlapping labeled docids", n |-> 0])
                  /\ UNCHANGED summary_rows
             ELSE /\ summary_rows' = Append(summary_rows,
                        [n_overlap |-> n,
                         MAE |-> Round3(mae),
                         Kappa |-> RoundOrNaN(kappa),
                         Relevant_Orig |-> Cardinality({k \in 1..n : y1[k] = 1}),
                         Relevant_Variant |-> Cardinality({k \in 1..n : y2[k] = 1})])
                  /\ UNCHANGED skip_log
    /\ pc' = "relevant_calc"
    /\ UNCHANGED <<D, s_ref, s_cmp, tau_out, tau_calls, orig, variant, compare_csv>>
    /\ UNCHANGED <<tableVars, extraVars>>

\* --------------------------------------- scripts/relevant_calc_2.py, main loop
\* read_labels of relevant_calc_2.py (with its dropna) and the dict of int labels
int_labels(file) ==
    LET df == dropna(read_labels(file)) IN [d \in DOMAIN df |-> AsInt(df[d])]

RelevantCalc2 ==
    /\ pc = "start"
    /\ LET sref == int_labels(orig)
           svar == int_labels(variant)
           ov == Overlap(DOMAIN sref, DOMAIN svar)
       IN /\ overlap' = ov
          /\ IF ov = {}
             THEN /\ skip_log' = Append(skip_log, [msg |-> "No overlapping docids", n |-> 0])
                  /\ UNCHANGED summary_rows
             ELSE /\ summary_rows' = Append(summary_rows,
                        [n_overlap |-> Cardinality(ov),
                         Flips_1_to_0 |-> Cardinality({d \in ov : sref[d] = 1 /\ svar[d] = 0}),
                         Flips_0_to_1 |-> Cardinality({d \in ov : sref[d] = 0 /\ svar[d] = 1})])
                  /\ UNCHANGED skip_log
    /\ pc' = "relevant_calc_2"
    /\ UNCHANGED <<D, s_ref, s_cmp, tau_out, tau_calls, orig, variant, compare_csv>>
    /\ UNCHANGED <<tableVars, extraVars>>

\* ------------------------------------------ scripts/csv_convert/compare.py
\* load_doc_rels_by_model for one model: docid -> the stripped label text,
\* for every row with a docid (the label may be empty)
load_doc_rels(file) == [d \in {e \in DocIds : file[e] # Absent} |-> file[d]]

\* main: the docids come out sorted by (len(x), x); the docids of the model
\* have equal length, so that is ascending order.
Compare ==
    /\ pc = "start"
    /\ LET irr_rels == load_doc_rels(orig)
           trans_rels == load_doc_rels(variant)
           common_ids == Ascending(Overlap(DOMAIN irr_rels, DOMAIN trans_rels))
       IN /\ overlap' = {common_ids[k] : k \in 1..Len(common_ids)}
          /\ IF common_ids = <<>>
             THEN /\ skip_log' = Append(skip_log, [msg |-> "No common docids found", n |-> 0])
                  /\ UNCHANGED compare_csv
             ELSE /\ compare_csv' = [k \in 1..Len(common_ids) |->
                        [docid |-> common_ids[k],
                         rel |-> irr_rels[common_ids[k]],
                         rel_translated |-> trans_rels[common_ids[k]]]]
                  /\ UNCHANGED skip_log
    /\ pc' = "compare"
    /\ UNCHANGED <<D, s_ref, s_cmp, tau_out, tau_calls, orig, variant, summary_rows>>
    /\ UNCHANGED <<tableVars, extraVars>>

\* ------------------------------------------------------------ SpecPair
InitPair ==
    /\ pc = "start"
    /\ D = {} /\ s_ref = <<>> /\ s_cmp = <<>> /\ tau_out = NoResult
    /\ orig \in JudgmentFiles
    /\ variant \in JudgmentFiles
    /\ overlap = {}
    /\ summary_rows = <<>>
    /\ skip_log = <<>>
    /\ tau_calls = 0
    /\ compare_csv = <<>>
    /\ TableIdle
    /\ ExtraIdle

NextPair ==
    \/ ApTauCalc
    \/ RelevantCalc
    \/ RelevantCalc2
    \/ Compare

SpecPair == InitPair /\ [][NextPair]_vars

\* ------------------------------------------------- claims on the overlap
HasRow(file, d) == file[d] # Absent
NumericText(cell) == cell \in {"0", "1", "2", "1.5"}
Labelled(file) == {d \in DocIds : HasRow(file, d) /\ NumericText(file[d])}
LabelledInBoth == Labelled(orig) \cap Labelled(variant)
PresentInBoth == {d \in DocIds : HasRow(orig, d) /\ HasRow(variant, d)}
InOneOnly(d) == HasRow(orig, d) # HasRow(variant, d)
CsvDocids == {compare_csv[k].docid : k \in 1..Len(compare_csv)}
RowsCount(S) == \A k \in 1..Len(summary_rows) : summary_rows[k].n_overlap = Cardinality(S)

TauSkippedBelowTwo ==
    pc = "ap_tau_calc" =>
        /\ Cardinality(LabelledInBoth) < 2 =>
            /\ Len(skip_log) = 1 /\ skip_log[1].n = Cardinality(LabelledInBoth)
            /\ tau_calls = 0 /\ tau_out = NoResult
            /\ summary_rows = <<>>
        /\ Cardinality(LabelledInBoth) >= 2 =>
            skip_log = <<>> /\ tau_calls = 1 /\ Len(summary_rows) = 1
        /\ \A k \in 1..Len(summary_rows) : summary_rows[k].n_overlap >= 2

WitnessTauSkipped ==
    /\ pc = "ap_tau_calc"
    /\ Cardinality(LabelledInBoth) = 1 /\ Cardinality(PresentInBoth) >= 2
    /\ Len(skip_log) = 1 /\ summary_rows = <<>>

\* C9: in relevant_calc.py every comparison whose labelled overlap is empty
\* or a single docid is skipped, and no summary row carries a NaN Kappa.
RelevantCalcSkipsDegenerate ==
    pc = "relevant_calc" =>
        /\ Cardinality(LabelledInBoth) <= 1 => (summary_rows = <<>> /\ Len(skip_log) = 1)
        /\ \A k \in 1..Len(summary_rows) : ~IsNaN(summary_rows[k].Kappa)

\* ------------------------------------------------- tables of label pairs
\* A data row is <<reference cell, comparison cell>>: rel / rel_translated
\* for get_kappa.py, nist_rel / llm_rel for summary.py; read_labels reads the
\* first column as the relevance column of a TSV whose docid is the row number.
Tables == UNION {[1..n -> AllCells \X AllCells] : n \in 0..MaxRows}

\* Python None, or an int
None == [none |-> TRUE, v |-> 0]
IntVal(v) == [none |-> FALSE, v |-> v]

\* checkInt of get_kappa.py: int(str(string).strip()), None on ValueError
\* (checkIntBlankIsZero: a blank cell read as 0)
checkIntBlankIsZero(cell) ==
    CASE cell = "0" -> IntVal(0) [] cell = "1" -> IntVal(1) [] cell = "2" -> IntVal(2)
      [] cell = Blank -> IntVal(0) [] OTHER -> None
checkInt(cell) ==
    CASE cell = "0" -> IntVal(0) [] cell = "1" -> IntVal(1) [] cell = "2" -> IntVal(2)
      [] OTHER -> None

\* as_int of summary.py: int(str(s).strip()), None on any exception
as_int(cell) ==
    CASE cell = "0" -> IntVal(0) [] cell = "1" -> IntVal(1) [] cell = "2" -> IntVal(2)
      [] OTHER -> None

\* the row loop of load_rel_columns (lines 53-61) over the first k rows
RECURSIVE load_rel_columns(_, _)
load_rel_columns(rows, k) ==
    IF k = 0 THEN [y1 |-> <<>>, y2 |-> <<>>]
    ELSE LET before == load_rel_columns(rows, k - 1)
             r == checkInt(rows[k][1])
             rt == checkInt(rows[k][2])
         IN IF r.none \/ rt.none THEN before
            ELSE [y1 |-> Append(before.y1, r.v), y2 |-> Append(before.y2, rt.v)]

Min(a, b) == IF a < b THEN a ELSE b
KappaNaN == [kind |-> "nan"]

\* summarize_file of get_kappa.py, lines 76-92, on the two lists read
get_kappa_stats(y1, y2) ==
    LET n == Min(Len(y1), Len(y2))
    IN IF n = 0
       THEN [n |-> 0, kappa_nominal |-> KappaNaN, kappa_linear |-> KappaNaN,
             kappa_quadratic |-> KappaNaN,
             more_relevant |-> 0, less_relevant |-> 0, unchanged |-> 0]
       ELSE [n |-> n,
             kappa_nominal |-> cohen_kappa_score(y1, y2, "none"),
             kappa_linear |-> cohen_kappa_score(y1, y2, "linear"),
             kappa_quadratic |-> cohen_kappa_score(y1, y2, "quadratic"),
             more_relevant |-> Cardinality({k \in 1..n : y2[k] > y1[k]}),
             less_relevant |-> Cardinality({k \in 1..n : y2[k] < y1[k]}),
             unchanged |-> Cardinality({k \in 1..n : y2[k] = y1[k]})]

\* summarize_file of get_kappa.py, lines 75-92, on a file that has both columns
GetKappaSummarize ==
    /\ pc = "start"
    /\ LET cols == load_rel_columns(table, Len(table))
       IN /\ loaded' = cols
          /\ summary' = get_kappa_stats(cols.y1, cols.y2)
    /\ pc' = "get_kappa"
    /\ UNCHANGED <<table, D, s_ref, s_cmp, tau_out, pairVars, extraVars>>

\* _binarize of summary.py, line 36; no label is None here, as_int's None
\* never reaches the lists (BinarizeAboveOne: the threshold one grade higher)
BinarizeAboveOne(vals) == [k \in 1..Len(vals) |-> IF vals[k] <= 1 THEN 0 ELSE 1]
Binarize(vals) == [k \in 1..Len(vals) |-> IF vals[k] <= 0 THEN 0 ELSE 1]

\* the row loop of summarize_file of summary.py (lines 55-65) over the first k rows
RECURSIVE summary_rows_loop(_, _)
summary_rows_loop(rows, k) ==
    IF k = 0 THEN [eq |-> 0, lt |-> 0, gt |-> 0, n |-> 0, nist_vals |-> <<>>, llm_vals |-> <<>>]
    ELSE LET before == summary_rows_loop(rows, k - 1)
             nist == as_int(rows[k][1])
             llm == as_int(rows[k][2])
         IN IF nist.none \/ llm.none THEN before
            ELSE [eq |-> before.eq + (IF llm.v = nist.v THEN 1 ELSE 0),
                  lt |-> before.lt + (IF llm.v # nist.v /\ llm.v < nist.v THEN 1 ELSE 0),
                  gt |-> before.gt + (IF llm.v # nist.v /\ ~(llm.v < nist.v) THEN 1 ELSE 0),
                  n |-> before.n + 1,
                  nist_vals |-> Append(before.nist_vals, nist.v),
                  llm_vals |-> Append(before.llm_vals, llm.v)]

\* kd.alpha(reliability_data=[nist_vals, llm_vals], level_of_measurement=
\* "ordinal") of lines 77-78.  The coefficient itself is not computed here,
\* only whether there is one.  When the two lists hold one single value
\* between them the expected disagreement is zero: releases of the
\* krippendorff package that validate the value domain raise ValueError
\* ("There has to be more than one value in the domain."), the others return
\* the quotient 0 / 0, NaN.  The source does not pin a release, so strict
\* says which kind is installed.
kd_alpha(nist, llm, strict) ==
    LET domain == {nist[k] : k \in 1..Len(nist)} \cup {llm[k] : k \in 1..Len(llm)}
    IN IF Cardinality(domain) <= 1
       THEN (IF strict THEN "raise" ELSE "nan")
       ELSE "value"

\* summarize_file of summary.py, lines 67-80, on the counters c of the row loop
summary_stats(c, strict) ==
    IF c.n = 0
    THEN [kind |-> "tuple",
          equal_count |-> 0, less_relevant_count |-> 0, more_relevant_count |-> 0,
          total_rows |-> 0, kappa |-> KappaNaN, kappa_linear |-> KappaNaN,
          kappa_quadratic |-> KappaNaN, kappa_binarized |-> KappaNaN,
          alpha_ordinal |-> "nan", nist_vals |-> <<>>, llm_vals |-> <<>>]
    ELSE IF kd_alpha(c.nist_vals, c.llm_vals, strict) = "raise"
    THEN Raised("ValueError")
    ELSE [kind |-> "tuple",
          equal_count |-> c.eq, less_relevant_count |-> c.lt,
          more_relevant_count |-> c.gt, total_rows |-> c.n,
          kappa |-> cohen_kappa_score(c.nist_vals, c.llm_vals, "none"),
          kappa_linear |-> cohen_kappa_score(c.nist_vals, c.llm_vals, "linear"),
          kappa_quadratic |-> cohen_kappa_score(c.nist_vals, c.llm_vals, "quadratic"),
          kappa_binarized |->
             cohen_kappa_score(Binarize(c.nist_vals), Binarize(c.llm_vals), "none"),
          alpha_ordinal |-> kd_alpha(c.nist_vals, c.llm_vals, strict),
          nist_vals |-> c.nist_vals, llm_vals |-> c.llm_vals]

\* summarize_file of summary.py, lines 55-80, on a file that has both columns
SummarySummarize ==
    /\ pc = "start"
    /\ \E strict \in BOOLEAN :
        LET c == summary_rows_loop(table, Len(table))
        IN /\ loaded' = [y1 |-> c.nist_vals, y2 |-> c.llm_vals]
           /\ summary' = summary_stats(c, strict)
    /\ pc' = "summary"
    /\ UNCHANGED <<table, D, s_ref, s_cmp, tau_out, pairVars, extraVars>>

\* read_labels of ap_tau_calc.py followed by dropna (lines 46-51, 70) on the
\* first column: row number -> parsed relevance
ReadLabels ==
    /\ pc = "start"
    /\ loaded' = dropna(read_labels([i \in 1..Len(table) |-> table[i][1]]))
    /\ pc' = "read_labels"
    /\ UNCHANGED <<table, summary, D, s_ref, s_cmp, tau_out, pairVars, extraVars>>

\* ----------------------------------------------------------- SpecTable
InitTable ==
    /\ pc = "start"
    /\ D = {} /\ s_ref = <<>> /\ s_cmp = <<>> /\ tau_out = NoResult
    /\ PairIdle
    /\ table \in Tables
    /\ loaded = <<>>
    /\ summary = <<>>
    /\ ExtraIdle

NextTable ==
    \/ GetKappaSummarize
    \/ SummarySummarize
    \/ ReadLabels

SpecTable == InitTable /\ [][NextTable]_vars

\* ------------------------------------------- claims on malformed labels
IntegerText(cell) == cell \in {"0", "1", "2"}
IntOf(cell) == CASE cell = "0" -> 0 [] cell = "1" -> 1 [] cell = "2" -> 2
UsableRow(r) == IntegerText(r[1]) /\ IntegerText(r[2])
Usable == SelectSeq(table, UsableRow)
UsableRef == [k \in 1..Len(Usable) |-> IntOf(Usable[k][1])]
UsableCmp == [k \in 1..Len(Usable) |-> IntOf(Usable[k][2])]
CountUsable(P(_, _)) == Cardinality({k \in 1..Len(Usable) : P(UsableRef[k], UsableCmp[k])})
CmpGreater(a, b) == b > a
CmpLess(a, b) == b < a
CmpEqual(a, b) == b = a

\* what get_kappa.py and summary.py keep: the rows whose two labels are both
\* integer literals, in file order, with the integers they spell
IntegerRowsOnly ==
    /\ pc = "get_kappa" =>
        /\ loaded.y1 = UsableRef /\ loaded.y2 = UsableCmp
        /\ summary.n = Len(Usable)
        /\ summary.more_relevant = CountUsable(CmpGreater)
        /\ summary.less_relevant = CountUsable(CmpLess)
        /\ summary.unchanged = CountUsable(CmpEqual)
    /\ pc = "summary" =>
        /\ loaded.y1 = UsableRef /\ loaded.y2 = UsableCmp
        /\ summary.kind = "tuple" =>
            /\ summary.total_rows = Len(Usable)
            /\ summary.more_relevant_count = CountUsable(CmpGreater)
            /\ summary.less_relevant_count = CountUsable(CmpLess)
            /\ summary.equal_count = CountUsable(CmpEqual)

\* C10 (as amended): get_kappa.py and summary.py drop every row in which
\* either label is blank or not an integer literal: it is not counted in n or
\* in the three counters, not passed to kappa, and not turned into 0;
\* read_labels of ap_tau_calc.py drops the blank and the non-numeric labels
\* but keeps a numeric label that is not an integer, such as 1.5.
MalformedLabelsExcluded ==
    /\ IntegerRowsOnly
    /\ pc = "read_labels" =>
        DOMAIN loaded = {i \in 1..Len(table) : NumericText(table[i][1])}

WitnessMalformedExcluded ==
    /\ pc = "get_kappa"
    /\ Len(table) = 2 /\ table[1] = <<Blank, "1">> /\ table[2] = <<"1", "2">>
    /\ summary.n = 1 /\ summary.more_relevant = 1

\* C10 as stated: in all three readers a label that is blank or not an
\* integer takes its row out of the comparison.
NonIntegerLabelsExcluded ==
    /\ IntegerRowsOnly
    /\ pc = "read_labels" =>
        DOMAIN loaded = {i \in 1..Len(table) : IntegerText(table[i][1])}

\* ------------------------------------------------------------ SpecKappa
\* The kappa lines of the three scripts applied to every pair of equal-length,
\* non-empty label sequences over the grade scale 0..MaxGrade.
MaxLen == 3
MaxGrade == 3
Grades == 0..MaxGrade

InitKappa ==
    /\ pc = "start"
    /\ TauIdle
    /\ PairIdle
    /\ TableIdle
    /\ \E n \in 1..MaxLen :
        /\ nist_vals \in [1..n -> Grades]
        /\ llm_vals \in [1..n -> Grades]
    /\ kappas = <<>>
    /\ MainIdle
    /\ ExtractIdle
    /\ FillIdle
    /\ LabelIdle
    /\ LaterIdle

\* get_kappa.py, lines 81-83
GetKappaKappas ==
    /\ pc = "start"
    /\ kappas' = [k_nom |-> cohen_kappa_score(nist_vals, llm_vals, "none"),
                  k_lin |-> cohen_kappa_score(nist_vals, llm_vals, "linear"),
                  k_quad |-> cohen_kappa_score(nist_vals, llm_vals, "quadratic")]
    /\ pc' = "get_kappa"
    /\ UNCHANGED <<nist_vals, llm_vals, kappaFrame>>

\* summary.py, lines 71-74; nist_bin and llm_bin are the two lists line 74
\* hands to cohen_kappa_score
SummaryKappas ==
    /\ pc = "start"
    /\ LET nist_bin == Binarize(nist_vals)
           llm_bin == Binarize(llm_vals)
       IN kappas' = [k |-> cohen_kappa_score(nist_vals, llm_vals, "none"),
                     k_lin |-> cohen_kappa_score(nist_vals, llm_vals, "linear"),
                     k_quad |-> cohen_kappa_score(nist_vals, llm_vals, "quadratic"),
                     nist_bin |-> nist_bin,
                     llm_bin |-> llm_bin,
                     k_bin |-> cohen_kappa_score(nist_bin, llm_bin, "none")]
    /\ pc' = "summary"
    /\ UNCHANGED <<nist_vals, llm_vals, kappaFrame>>

\* relevant_calc.py, line 80 and the rounding of line 97
RelevantCalcKappa ==
    /\ pc = "start"
    /\ LET kappa == cohen_kappa_score(nist_vals, llm_vals, "none")
       IN kappas' = [kappa |-> kappa, Kappa |-> RoundOrNaN(kappa)]
    /\ pc' = "relevant_calc"
    /\ UNCHANGED <<nist_vals, llm_vals, kappaFrame>>

NextKappa ==
    \/ GetKappaKappas
    \/ SummaryKappas
    \/ RelevantCalcKappa

SpecKappa == InitKappa /\ [][NextKappa]_vars

\* ------------------------------------------------------ claims on kappa
\* the unweighted kappa the script at pc produced
Unweighted ==
    CASE pc = "get_kappa" -> kappas.k_nom
      [] pc = "summary" -> kappas.k
      [] pc = "relevant_calc" -> kappas.kappa

KappaDone == pc \in {"get_kappa", "summary", "relevant_calc"}
SingleGrade == \A i, j \in 1..Len(nist_vals) : nist_vals[i] = nist_vals[j]

\* two results of cohen_kappa_score are the same outcome: the same number, or
\* both undefined
SameKappa(r, q) ==
    \/ r.kind = "nan" /\ q.kind = "nan"
    \/ r.kind = "value" /\ q.kind = "value" /\ r.num * q.den = q.num * r.den

\* C13: the unweighted kappa of two label sequences that are equal at every
\* index is 1.0, sequences of a single grade included.
KappaOfEqualIsOne ==
    (KappaDone /\ llm_vals = nist_vals) => IsOne(Unweighted)

Collapsed(vals) == [k \in 1..Len(vals) |-> IF vals[k] = 0 THEN 0 ELSE 1]

\* C16: _binarize maps grade 0 to 0 and every higher grade to 1, index by
\* index, a second application changes nothing, and the binarized kappa is
\* the unweighted kappa of the two collapsed sequences.
BinarizeCollapses ==
    pc = "summary" =>
        /\ kappas.nist_bin = Collapsed(nist_vals)
        /\ kappas.llm_bin = Collapsed(llm_vals)
        /\ Len(kappas.nist_bin) = Len(nist_vals)
        /\ Binarize(kappas.nist_bin) = kappas.nist_bin
        /\ Binarize(kappas.llm_bin) = kappas.llm_bin
        /\ kappas.k_bin = cohen_kappa_score(Collapsed(nist_vals), Collapsed(llm_vals), "none")

\* grades 1, 2 and 3 collapse to one class: the graded kappa is below 1 and
\* the binarized kappa is exactly 1
WitnessBinarizeCollapses ==
    /\ pc = "summary"
    /\ nist_vals = <<0, 1, 2>> /\ llm_vals = <<0, 3, 1>>
    /\ kappas.nist_bin = <<0, 1, 1>> /\ kappas.llm_bin = <<0, 1, 1>>
    /\ IsOne(kappas.k_bin) /\ ~IsOne(kappas.k)

\* ------------------------------------------------------------- SpecMain
\* One run of main() of get_kappa.py, compare_2.py or summary.py over the
\* comparison files of its input directory.  A file is its header and its
\* data rows.  "ref" stands for the reference label column under any of the
\* names the script accepts (rel, relevance; nist_rel, rel_reference), "cmp"
\* for the comparison label column (rel_translated, ...; llm_rel, rel_model).
\* Every file name matches MODEL_RE; the model name is the file's number.
MaxFiles == 2
MaxFileRows == 2

AllColumns == {"docid", "ref", "cmp"}
\* a row whose label went up, one whose label went down, one unchanged
MainRowKinds == {<<"0", "1">>, <<"1", "0">>, <<"1", "1">>}
\* The files: every file of up to MaxFileRows labelled rows, a file with no
\* header, one file for each missing label column, and two files with a row
\* that has a blank label.
MainFiles ==
    {[fieldnames |-> AllColumns, rows |-> r] :
        r \in UNION {[1..n -> MainRowKinds] : n \in 0..MaxFileRows}}
    \cup {[fieldnames |-> {}, rows |-> <<>>],
          [fieldnames |-> {"docid", "ref"}, rows |-> << <<"1", Absent>> >>],
          [fieldnames |-> {"docid", "cmp"}, rows |-> << <<Absent, "1">> >>],
          [fieldnames |-> AllColumns, rows |-> << <<Blank, "1">> >>],
          [fieldnames |-> AllColumns, rows |-> << <<Blank, "1">>, <<"0", "1">> >>]}

InitMain ==
    /\ pc = "start"
    /\ TauIdle
    /\ PairIdle
    /\ TableIdle
    /\ KappaIdle
    /\ files \in UNION {[1..n -> MainFiles] : n \in 0..MaxFiles}
    /\ out_csv = NotWritten
    /\ error = "none"
    /\ ExtractIdle
    /\ FillIdle
    /\ LabelIdle
    /\ LaterIdle

\* the column lookup of get_kappa.py:48-50, compare_2.py:40-43, summary.py:50-52
has_label_columns(file) == "ref" \in file.fieldnames /\ "cmp" \in file.fieldnames

\* load_rel_columns of get_kappa.py, lines 25-62
get_kappa_load(file) ==
    IF file.fieldnames = {} THEN [y1 |-> <<>>, y2 |-> <<>>]
    ELSE IF ~has_label_columns(file) THEN [y1 |-> <<>>, y2 |-> <<>>]
    ELSE load_rel_columns(file.rows, Len(file.rows))

\* summarize_file of get_kappa.py, lines 65-92
get_kappa_summarize_file(file) ==
    LET cols == get_kappa_load(file) IN get_kappa_stats(cols.y1, cols.y2)

\* summarize_file tabulated over the files of the model
get_kappa_summary_of == [file \in MainFiles |-> get_kappa_summarize_file(file)]

\* main of get_kappa.py, lines 94-116: one row for every file
GetKappaMain ==
    /\ pc = "start"
    /\ out_csv' = Written([i \in 1..Len(files) |->
                     [model |-> ToString(i), summary |-> get_kappa_summary_of[files[i]]]])
    /\ pc' = "get_kappa"
    /\ UNCHANGED <<files, error, mainFrame>>

\* the row loop of summarize_file of compare_2.py (lines 47-55) over the first k rows
RECURSIVE compare_2_rows_loop(_, _)
compare_2_rows_loop(rows, k) ==
    IF k = 0 THEN [more |-> 0, less |-> 0]
    ELSE LET before == compare_2_rows_loop(rows, k - 1)
             r == as_int(rows[k][1])
             rt == as_int(rows[k][2])
         IN IF r.none \/ rt.none THEN before
            ELSE IF rt.v > r.v THEN [before EXCEPT !.more = @ + 1]
            ELSE IF rt.v < r.v THEN [before EXCEPT !.less = @ + 1]
            ELSE before

\* summarize_file of compare_2.py, lines 23-57
compare_2_summarize_file(file) ==
    IF file.fieldnames = {} THEN [more |-> 0, less |-> 0]
    ELSE IF ~has_label_columns(file) THEN [more |-> 0, less |-> 0]
    ELSE compare_2_rows_loop(file.rows, Len(file.rows))

\* summarize_file tabulated over the files of the model
compare_2_summary_of == [file \in MainFiles |-> compare_2_summarize_file(file)]

\* main of compare_2.py, lines 59-77: one row for every file
Compare2Main ==
    /\ pc = "start"
    /\ out_csv' = Written([i \in 1..Len(files) |->
                     [model |-> ToString(i), summary |-> compare_2_summary_of[files[i]]]])
    /\ pc' = "compare_2"
    /\ UNCHANGED <<files, error, mainFrame>>

\* summarize_file of summary.py, lines 38-80
summary_summarize_file(file, strict) ==
    IF file.fieldnames = {} THEN summary_stats(summary_rows_loop(<<>>, 0), strict)
    ELSE IF ~has_label_columns(file) THEN summary_stats(summary_rows_loop(<<>>, 0), strict)
    ELSE summary_stats(summary_rows_loop(file.rows, Len(file.rows)), strict)

\* summarize_file tabulated over the files of the model and the two kinds of
\* krippendorff release
summary_of ==
    [file \in MainFiles |-> [strict \in BOOLEAN |-> summary_summarize_file(file, strict)]]

\* the loop of main of summary.py (lines 88-98) over the first k files; raised
\* is set once summarize_file has raised, and the loop goes no further
RECURSIVE summary_main_loop(_, _, _)
summary_main_loop(fs, k, strict) ==
    IF k = 0
    THEN [rows |-> <<>>, ge |-> 0, gl |-> 0, gm |-> 0, gt |-> 0,
          all_nist |-> <<>>, all_llm |-> <<>>, raised |-> FALSE]
    ELSE LET before == summary_main_loop(fs, k - 1, strict)
             s == summary_of[fs[k]][strict]
         IN IF before.raised THEN before
            ELSE IF s.kind = "raise" THEN [before EXCEPT !.raised = TRUE]
            ELSE IF s.total_rows = 0 THEN before
            ELSE [rows |-> Append(before.rows,
                        [model |-> ToString(k),
                         equal_count |-> s.equal_count,
                         less_relevant_count |-> s.less_relevant_count,
                         more_relevant_count |-> s.more_relevant_count,
                         total_rows |-> s.total_rows,
                         kappa |-> s.kappa, kappa_linear |-> s.kappa_linear,
                         kappa_quadratic |-> s.kappa_quadratic,
                         kappa_binarized |-> s.kappa_binarized,
                         alpha_ordinal |-> s.alpha_ordinal]),
                  ge |-> before.ge + s.equal_count,
                  gl |-> before.gl + s.less_relevant_count,
                  gm |-> before.gm + s.more_relevant_count,
                  gt |-> before.gt + s.total_rows,
                  all_nist |-> before.all_nist \o s.nist_vals,
                  all_llm |-> before.all_llm \o s.llm_vals,
                  raised |-> FALSE]

\* lines 104-126 of summary.py: the pooled statistics and the closing row
\* (overall_row_total_as_more: gt, the grand total, written where gm belongs)
overall_row_total_as_more(acc, strict) ==
    [model |-> "__OVERALL__",
     equal_count |-> acc.ge, less_relevant_count |-> acc.gl,
     more_relevant_count |-> acc.gt, total_rows |-> acc.gt,
     kappa |-> cohen_kappa_score(acc.all_nist, acc.all_llm, "none"),
     kappa_linear |-> cohen_kappa_score(acc.all_nist, acc.all_llm, "linear"),
     kappa_quadratic |-> cohen_kappa_score(acc.all_nist, acc.all_llm, "quadratic"),
     kappa_binarized |->
        cohen_kappa_score(Binarize(acc.all_nist), Binarize(acc.all_llm), "none"),
     alpha_ordinal |-> kd_alpha(acc.all_nist, acc.all_llm, strict)]
overall_row(acc, strict) ==
    [model |-> "__OVERALL__",
     equal_count |-> acc.ge, less_relevant_count |-> acc.gl,
     more_relevant_count |-> acc.gm, total_rows |-> acc.gt,
     kappa |-> cohen_kappa_score(acc.all_nist, acc.all_llm, "none"),
     kappa_linear |-> cohen_kappa_score(acc.all_nist, acc.all_llm, "linear"),
     kappa_quadratic |-> cohen_kappa_score(acc.all_nist, acc.all_llm, "quadratic"),
     kappa_binarized |->
        cohen_kappa_score(Binarize(acc.all_nist), Binarize(acc.all_llm), "none"),
     alpha_ordinal |-> kd_alpha(acc.all_nist, acc.all_llm, strict)]

\* main of summary.py, lines 82-126
SummaryMain ==
    /\ pc = "start"
    /\ \E strict \in BOOLEAN :
        \E acc \in {summary_main_loop(files, Len(files), strict)} :
           IF files = <<>> THEN UNCHANGED <<out_csv, error>>
           ELSE IF acc.raised THEN error' = "ValueError" /\ UNCHANGED out_csv
           ELSE IF acc.rows = <<>> THEN UNCHANGED <<out_csv, error>>
           ELSE IF kd_alpha(acc.all_nist, acc.all_llm, strict) = "raise"
                THEN error' = "ValueError" /\ UNCHANGED out_csv
           ELSE /\ out_csv' = Written(Append(acc.rows, overall_row(acc, strict)))
                /\ UNCHANGED error
    /\ pc' = "summary"
    /\ UNCHANGED <<files, mainFrame>>

NextMain ==
    \/ GetKappaMain
    \/ Compare2Main
    \/ SummaryMain

SpecMain == InitMain /\ [][NextMain]_vars

\* ------------------------------------------- claims on the summary output
MainDone == pc \in {"get_kappa", "compare_2", "summary"}
\* the rows of a file in which both labels are integers
UsableRowsOf(file) == IF has_label_columns(file) THEN SelectSeq(file.rows, UsableRow) ELSE <<>>
NoUsableRows(file) == UsableRowsOf(file) = <<>>
RowsOfModel(i) == {k \in 1..Len(out_csv.rows) : out_csv.rows[k].model = ToString(i)}
FileNumbers == 1..Len(files)

\* C11: in the summary output a file without usable rows (no data, no usable
\* label pair, or no label columns) cannot be taken for a file with usable
\* rows: where it has a row, the statistics of that row are NaN and the row
\* differs from the row of every file that has usable rows.
EmptyCarriesSentinel ==
    /\ pc = "get_kappa" =>
        \A i \in FileNumbers : NoUsableRows(files[i]) =>
            /\ out_csv.rows[i].summary.kappa_nominal.kind = "nan"
            /\ \A j \in FileNumbers : ~NoUsableRows(files[j]) =>
                out_csv.rows[i].summary # out_csv.rows[j].summary
    /\ pc = "compare_2" =>
        \A i \in FileNumbers : NoUsableRows(files[i]) =>
            /\ out_csv.rows[i].summary # [more |-> 0, less |-> 0]
            /\ \A j \in FileNumbers : ~NoUsableRows(files[j]) =>
                out_csv.rows[i].summary # out_csv.rows[j].summary
    /\ pc = "summary" =>
        \A i \in FileNumbers : NoUsableRows(files[i]) => RowsOfModel(i) = {}

\* a file with a header in which a label column is missing
MissingLabelColumn(file) == file.fieldnames # {} /\ ~has_label_columns(file)

\* C12: a file that lacks a label column ends its processing with an error,
\* and the summary has no row for it.
MissingColumnFails ==
    MainDone =>
        \A i \in FileNumbers : MissingLabelColumn(files[i]) =>
            /\ error # "none"
            /\ RowsOfModel(i) = {}

Sign(r) == IF IntOf(r[2]) > IntOf(r[1]) THEN 1 ELSE IF IntOf(r[2]) < IntOf(r[1]) THEN -1 ELSE 0
CountSign(file, sign) ==
    LET u == UsableRowsOf(file) IN Cardinality({k \in 1..Len(u) : Sign(u[k]) = sign})
PerModelRows == SubSeq(out_csv.rows, 1, Len(out_csv.rows) - 1)
OverallRow == out_csv.rows[Len(out_csv.rows)]
ModelNumber(row) == CHOOSE i \in FileNumbers : ToString(i) = row.model

\* C15: in every per-model row the three directional counts are the numbers
\* of usable rows whose comparison label is above, below and equal to the
\* reference label, so they add up to n; the counts of the __OVERALL__ row
\* are the sums of the per-model counts.
BucketsPartition ==
    /\ pc = "get_kappa" =>
        \A i \in FileNumbers :
            LET s == out_csv.rows[i].summary
            IN /\ s.more_relevant = CountSign(files[i], 1)
               /\ s.less_relevant = CountSign(files[i], -1)
               /\ s.unchanged = CountSign(files[i], 0)
               /\ s.more_relevant + s.less_relevant + s.unchanged = s.n
               /\ s.n = Len(UsableRowsOf(files[i]))
    /\ (pc = "summary" /\ out_csv.written) =>
        /\ \A k \in 1..Len(PerModelRows) :
            LET row == PerModelRows[k]
                file == files[ModelNumber(row)]
            IN /\ row.more_relevant_count = CountSign(file, 1)
               /\ row.less_relevant_count = CountSign(file, -1)
               /\ row.equal_count = CountSign(file, 0)
               /\ row.more_relevant_count + row.less_relevant_count + row.equal_count
                    = row.total_rows
        /\ OverallRow.model = "__OVERALL__"
        /\ OverallRow.more_relevant_count =
             SumSeq([k \in 1..Len(PerModelRows) |-> PerModelRows[k].more_relevant_count])
        /\ OverallRow.less_relevant_count =
             SumSeq([k \in 1..Len(PerModelRows) |-> PerModelRows[k].less_relevant_count])
        /\ OverallRow.equal_count =
             SumSeq([k \in 1..Len(PerModelRows) |-> PerModelRows[k].equal_count])
        /\ OverallRow.total_rows =
             SumSeq([k \in 1..Len(PerModelRows) |-> PerModelRows[k].total_rows])

\* two models with usable rows, an unusable row among them, and every bucket
\* of the __OVERALL__ row in use
WitnessBucketsPartition ==
    /\ pc = "summary" /\ out_csv.written
    /\ Len(PerModelRows) = 2
    /\ \E i \in FileNumbers : Len(UsableRowsOf(files[i])) < Len(files[i].rows)
    /\ OverallRow.more_relevant_count >= 1
    /\ OverallRow.less_relevant_count >= 1
    /\ OverallRow.equal_count >= 1

\* ---------------------------------------------------------- SpecExtract
\* The grade extraction of the labelling scripts and of the log parsers,
\* applied to one logged response.  A response text is given by its shape and
\* by the digit d written as its O value:
\*   object        {"M": 2, "T": 1, "O": d}     (NoO: the object has no O)
\*   array         [{"M": 2, "T": 1, "O": d}]
\*   fenced        prose, then the object, then prose
\*   fenced_array  prose, then the array
\*   truncated     {"M": 2, "T": 1, "O": d      (the output was cut off)
\*   final         prose, then  ##final score: d
\*   stringified   the array once more encoded as a JSON string
\*   prose         text without a grade;  empty: the empty string
MaxChunks == 1
NoO == -1
OutOfScale == 7
ODigits == Grades \cup {OutOfScale}
Texts ==
    {[shape |-> s, o |-> d] :
        s \in {"object", "array", "fenced", "fenced_array", "truncated", "final", "stringified"},
        d \in ODigits}
    \cup {[shape |-> "object", o |-> NoO], [shape |-> "prose", o |-> NoO],
          [shape |-> "empty", o |-> NoO]}
EmptyText == [shape |-> "empty", o |-> NoO]
Items ==
    {[response_text |-> rt, content |-> c] :
        rt \in Texts, c \in UNION {[1..n -> Texts] : n \in 0..MaxChunks}}

\* json.loads(text): the type of the value and its O, or the failure
json_loads(text) ==
    CASE text.shape = "object" -> [type |-> "dict", O |-> text.o]
      [] text.shape = "array" -> [type |-> "list", O |-> text.o]
      [] text.shape = "stringified" -> [type |-> "str", O |-> text.o]
      [] OTHER -> [type |-> "fail", O |-> NoO]

\* the string a stringified response decodes to
decoded(text) == [shape |-> "array", o |-> text.o]

\* _JSON_OBJ_RE.search(text) followed by json.loads(m.group(0)): the regex
\* \{.*\} takes the text from the first { to the last }
json_obj_search(text) ==
    IF text.shape \in {"object", "array", "fenced", "fenced_array"}
    THEN [type |-> "dict", O |-> text.o]
    ELSE [type |-> "fail", O |-> NoO]

\* the digit behind the first "O": in the text, NoO when "O": does not occur
\* (in a stringified response the quotes are escaped)
o_digit(text) ==
    IF text.shape \in {"object", "array", "fenced", "fenced_array", "truncated"}
    THEN text.o ELSE NoO

\* _FINAL_SCORE_RE of trec_dl_label_umbrela.py: ##final score: [0-3]
final_score(text) ==
    IF text.shape = "final" /\ text.o \in 0..3 THEN IntVal(text.o) ELSE None

\* O_REGEX of the two log parsers and _O_FIELD_RE of trec_dl_label_umbrela.py:
\* "O": followed by one of the digits 0-3
regex_O_0_3(text) == IF o_digit(text) \in 0..3 THEN IntVal(o_digit(text)) ELSE None

\* O_REGEX of result_parser.py: "O": followed by any digit
regex_O_digit(text) == IF o_digit(text) # NoO THEN IntVal(o_digit(text)) ELSE None

\* lines 116-121 and 130-135 of trec_dl_label_umbrela.py: the O of the
\* object if str(val).strip() is one of "0", "1", "2", "3"
umbrela_O_of(obj) ==
    IF obj.type = "dict" /\ obj.O # NoO /\ obj.O \in 0..3 THEN IntVal(obj.O) ELSE None

\* extract_o_score_from_text of trec_dl_label_umbrela.py, lines 100-149
extract_o_score_from_text(text) ==
    IF text.shape = "empty" THEN None
    ELSE IF ~umbrela_O_of(json_loads(text)).none THEN umbrela_O_of(json_loads(text))
    ELSE IF ~umbrela_O_of(json_obj_search(text)).none THEN umbrela_O_of(json_obj_search(text))
    ELSE IF ~final_score(text).none THEN final_score(text)
    ELSE regex_O_0_3(text)

\* lines 124-128 of trec_dl_label_relevant.py: json.loads(text).get("O", "");
\* a list or a string has no get, and the AttributeError gives "" as well
llm_score(text) ==
    IF json_loads(text).type = "dict" /\ json_loads(text).O # NoO
    THEN IntVal(json_loads(text).O)
    ELSE None

\* extract_overall of result_parser.py, lines 89-123
extract_overall(text) ==
    IF text.shape = "empty" THEN None
    ELSE IF json_loads(text).type \in {"dict", "list"} /\ json_loads(text).O # NoO
    THEN IntVal(json_loads(text).O)                     \* strategy 1
    ELSE IF text.shape = "fenced_array" THEN IntVal(text.o)  \* strategy 2: text[start:end+1]
    ELSE regex_O_digit(text)                            \* strategy 3

\* the non-empty text chunks of full_response, in order
text_chunks(content) == SelectSeq(content, LAMBDA c : c.shape # "empty")

\* extract_text_from_full_response of result_parser.py, lines 70-86
extract_text_from_full_response(content) ==
    LET with_O == SelectSeq(text_chunks(content), LAMBDA c : ~regex_O_digit(c).none)
    IN IF with_O # <<>> THEN with_O[1]
       ELSE IF text_chunks(content) # <<>> THEN text_chunks(content)[1]
       ELSE EmptyText

InitExtract ==
    /\ pc = "start"
    /\ TauIdle
    /\ PairIdle
    /\ TableIdle
    /\ KappaIdle
    /\ MainIdle
    /\ FillIdle
    /\ LabelIdle
    /\ LaterIdle
    /\ item \in Items
    /\ extracted = <<>>

\* trec_dl_label_umbrela.py, line 206, on the text collected from the response
UmbrelaExtract ==
    /\ pc = "start"
    /\ extracted' = [text |-> item.response_text,
                     label |-> extract_o_score_from_text(item.response_text)]
    /\ pc' = "umbrela"
    /\ UNCHANGED <<item, extractFrame>>

\* trec_dl_label_relevant.py, lines 123-128
LlmScore ==
    /\ pc = "start"
    /\ extracted' = [text |-> item.response_text, label |-> llm_score(item.response_text)]
    /\ pc' = "llm_score"
    /\ UNCHANGED <<item, extractFrame>>

\* result_parser.py, lines 157-163
ResultParserExtract ==
    /\ pc = "start"
    /\ LET raw_text == IF item.response_text.shape # "empty" THEN item.response_text
                       ELSE extract_text_from_full_response(item.content)
       IN extracted' = [text |-> raw_text, label |-> extract_overall(raw_text)]
    /\ pc' = "result_parser"
    /\ UNCHANGED <<item, extractFrame>>

NextExtract ==
    \/ UmbrelaExtract
    \/ LlmScore
    \/ ResultParserExtract

SpecExtract == InitExtract /\ [][NextExtract]_vars

\* --------------------------------------------- claims on grade extraction
ExtractDone == pc \in {"umbrela", "llm_score", "result_parser"}
\* the text carries a grade as the O of a JSON object or as "O": d
HasGrade(text) ==
    /\ text.shape \in {"object", "array", "fenced", "fenced_array", "truncated"}
    /\ text.o \in Grades

\* C17: a response that is a JSON object with a grade as its O is labelled
\* with that grade; a response whose strict parse fails but which holds an
\* embedded object or an "O": d pattern is labelled d by the fallback; the
\* label is blank only if the text carries no grade.
GradeExtracted ==
    ExtractDone =>
        /\ (extracted.text.shape = "object" /\ extracted.text.o \in Grades) =>
            extracted.label = IntVal(extracted.text.o)
        /\ (extracted.text.shape \in {"fenced", "truncated"} /\ extracted.text.o \in Grades) =>
            extracted.label = IntVal(extracted.text.o)
        /\ extracted.label.none => ~HasGrade(extracted.text)

\* ------------------------------------------------------------- SpecFill
\* The two log-fill parsers, claude-3_5-parser.py and amazon_nova_parser.py:
\* read the O score of every logged response, then fill the empty cells of
\* the label column of TARGET_CSV.  Cells and docids are strings, a CSV row
\* is a record over the header's column names.
MaxItems == 2
MaxCsvRows == 2
Parsers == {"claude", "nova"}

LogItem(docid, text, content) ==
    [docid |-> docid, response_text |-> text, content |-> content]
\* the log entries tried: a bare object, an object with an O outside the
\* scale, an object inside prose, a refusal, an entry of another document,
\* an entry without docid, and a stringified array in full_response only
FillItems ==
    {LogItem("1", [shape |-> "object", o |-> 2], <<>>),
     LogItem("1", [shape |-> "object", o |-> OutOfScale], <<>>),
     LogItem("1", [shape |-> "fenced", o |-> 1], <<>>),
     LogItem("1", [shape |-> "prose", o |-> NoO], <<>>),
     LogItem("2", [shape |-> "object", o |-> 0], <<>>),
     LogItem("", [shape |-> "object", o |-> 2], <<>>),
     LogItem("2", EmptyText, <<[shape |-> "stringified", o |-> 3]>>)}

LlmRelHeader == <<"docid", "nist_rel", "llm_rel">>
RelModelHeader == <<"docid", "rel_reference", "rel_model">>
\* a cell of the label column: empty, whitespace only, or a label
LabelCells == {"", " ", "3"}
LlmRelRows ==
    {[docid |-> d, nist_rel |-> "0", llm_rel |-> c] : d \in {"1", "2"}, c \in LabelCells}
TargetCsvs ==
    {[fieldnames |-> LlmRelHeader, rows |-> r] :
        r \in UNION {[1..n -> LlmRelRows] : n \in 0..MaxCsvRows}}
    \cup {[fieldnames |-> RelModelHeader,
           rows |-> <<[docid |-> "1", rel_reference |-> "0", rel_model |-> ""]>>]}

\* str.strip() on a cell
strip(cell) ==
    CASE cell = " " -> ""
      [] cell = " 1" -> "1"
      [] OTHER -> cell

\* col in fieldnames
has_column(fieldnames, col) == \E i \in DOMAIN fieldnames : fieldnames[i] = col

\* _get_text_blocks_from_item / _candidate_text_blocks: response_text if it
\* is not blank, then the non-blank text chunks of full_response
candidate_text_blocks(it) ==
    (IF it.response_text.shape # "empty" THEN <<it.response_text>> ELSE <<>>)
        \o text_chunks(it.content)

\* _try_parse_json_for_O of amazon_nova_parser.py, lines 47-82: int(obj["O"])
\* of the object, of the first element of the array, or of what a JSON
\* string decodes to
try_parse_json_for_O(text) ==
    LET obj == IF json_loads(text).type = "str" THEN json_loads(decoded(text))
               ELSE json_loads(text)
    IN IF obj.type \in {"list", "dict"} /\ obj.O # NoO THEN IntVal(obj.O) ELSE None

\* the first result that is not None of f over the blocks
RECURSIVE first_O_json(_)
first_O_json(blocks) ==
    IF blocks = <<>> THEN None
    ELSE IF ~try_parse_json_for_O(Head(blocks)).none THEN try_parse_json_for_O(Head(blocks))
    ELSE first_O_json(Tail(blocks))
RECURSIVE first_O_regex(_)
first_O_regex(blocks) ==
    IF blocks = <<>> THEN None
    ELSE IF ~regex_O_0_3(Head(blocks)).none THEN regex_O_0_3(Head(blocks))
    ELSE first_O_regex(Tail(blocks))

\* claude-3_5-parser.py lines 113-119 (the regex on every block);
\* amazon_nova_parser.py _extract_O_from_item, lines 93-104 (the JSON parse
\* on every block, then the regex on every block)
extract_O_from_item(parser, it) ==
    IF parser = "claude" THEN first_O_regex(candidate_text_blocks(it))
    ELSE IF ~first_O_json(candidate_text_blocks(it)).none
         THEN first_O_json(candidate_text_blocks(it))
         ELSE first_O_regex(candidate_text_blocks(it))

\* mapping[docid] = O_val
put(mapping, docid, O_val) ==
    [d \in DOMAIN mapping \cup {docid} |-> IF d = docid THEN O_val ELSE mapping[d]]

\* read_logs_collect_O_scores: the loop over the entries of the log, the
\* last score of a docid wins, entries without docid or without score are
\* passed over
RECURSIVE read_logs_collect_O_scores(_, _, _)
read_logs_collect_O_scores(parser, data, k) ==
    IF k = 0 THEN <<>>
    ELSE LET mapping == read_logs_collect_O_scores(parser, data, k - 1)
             O_val == extract_O_from_item(parser, data[k])
         IN IF data[k].docid = "" \/ O_val.none THEN mapping
            ELSE put(mapping, data[k].docid, O_val.v)

\* the required columns of load_csv_rows, and pick_target_column
missing_column(parser, fieldnames) ==
    IF parser = "claude"
    THEN \E col \in {"docid", "nist_rel", "llm_rel"} : ~has_column(fieldnames, col)
    ELSE \/ ~has_column(fieldnames, "docid")
         \/ ~has_column(fieldnames, "llm_rel") /\ ~has_column(fieldnames, "rel_model")
pick_target_column(parser, fieldnames) ==
    IF parser = "claude" \/ has_column(fieldnames, "llm_rel") THEN "llm_rel" ELSE "rel_model"

\* the condition of the fill loop on one row
fills(row, target_col, mapping) ==
    strip(row[target_col]) = "" /\ row.docid \in DOMAIN mapping

\* the fill that does not look at the cell
fill_rows_overwriting(rows, target_col, mapping) ==
    [i \in DOMAIN rows |->
        IF rows[i].docid \in DOMAIN mapping
        THEN [rows[i] EXCEPT ![target_col] = ToString(mapping[rows[i].docid])]
        ELSE rows[i]]

\* the loop of main over the rows, lines 158-163 (claude) and 185-190 (nova)
fill_rows(rows, target_col, mapping) ==
    [i \in DOMAIN rows |->
        IF fills(rows[i], target_col, mapping)
        THEN [rows[i] EXCEPT ![target_col] = ToString(mapping[rows[i].docid])]
        ELSE rows[i]]
updates_of(rows, target_col, mapping) ==
    Cardinality({i \in DOMAIN rows : fills(rows[i], target_col, mapping)})

FillResult(csv, rewritten, bak, err) ==
    [csv |-> csv, rewritten |-> rewritten, bak |-> bak, error |-> err]

InitFill ==
    /\ pc = "start"
    /\ TauIdle
    /\ PairIdle
    /\ TableIdle
    /\ KappaIdle
    /\ MainIdle
    /\ ExtractIdle
    /\ LabelIdle
    /\ LaterIdle
    /\ log_items \in UNION {[1..n -> FillItems] : n \in 0..MaxItems}
    /\ target_csv \in TargetCsvs
    /\ DRY_RUN \in BOOLEAN
    /\ docid_to_O = <<>>
    /\ filled = <<>>

\* main of the parser: claude-3_5-parser.py lines 145-180,
\* amazon_nova_parser.py lines 173-208
FillMain(parser) ==
    /\ \E mapping \in {read_logs_collect_O_scores(parser, log_items, Len(log_items))} :
        /\ docid_to_O' = mapping
        /\ IF DOMAIN mapping = {}
           THEN filled' = FillResult(target_csv, FALSE, FALSE, "none")
           ELSE IF missing_column(parser, target_csv.fieldnames)
           THEN filled' = FillResult(target_csv, FALSE, FALSE, "SystemExit")
           ELSE LET target_col == pick_target_column(parser, target_csv.fieldnames)
                    rows == fill_rows(target_csv.rows, target_col, mapping)
                    updates == updates_of(target_csv.rows, target_col, mapping)
                IN IF updates = 0 \/ DRY_RUN
                   THEN filled' = FillResult(target_csv, FALSE, FALSE, "none")
                   ELSE filled' = FillResult([fieldnames |-> target_csv.fieldnames,
                                              rows |-> rows], TRUE, TRUE, "none")
    /\ pc' = parser
    /\ UNCHANGED <<log_items, target_csv, DRY_RUN, fillFrame>>

ClaudeMain ==
    /\ pc = "start"
    /\ FillMain("claude")

NovaMain ==
    /\ pc = "start"
    /\ FillMain("nova")

NextFill ==
    \/ ClaudeMain
    \/ NovaMain

SpecFill == InitFill /\ [][NextFill]_vars

\* ------------------------------------------------- claims on the log fill
FillDone == pc \in Parsers
\* the label column of the CSV
TargetCol == IF has_column(target_csv.fieldnames, "llm_rel") THEN "llm_rel" ELSE "rel_model"
\* the rows whose label cell the run changed
ChangedRows ==
    {i \in DOMAIN target_csv.rows :
        /\ i \in DOMAIN filled.csv.rows
        /\ filled.csv.rows[i][TargetCol] # target_csv.rows[i][TargetCol]}

\* C18: every score the log-fill parsers write into the label column is one
\* of 0, 1, 2, 3, whether the JSON parse or the regex produced it.
WrittenScoresInScale ==
    FillDone =>
        \A i \in ChangedRows : filled.csv.rows[i][TargetCol] \in {"0", "1", "2", "3"}

\* a row the fill loop would change: its cell is empty (nothing but
\* whitespace counts as empty) and the logs hold a score for its docid
WouldFill(row) == strip(row[TargetCol]) = "" /\ row.docid \in DOMAIN docid_to_O
\* the row with its label cell taken out
OtherColumns(row) == [c \in DOMAIN row \ {TargetCol} |-> row[c]]

\* C19: the log fill changes a label cell only if the cell was empty and the
\* logs hold a score for the row's docid; non-empty label cells, the other
\* columns, the header, the number of rows and their order stay as they
\* were; if no cell would change, or DRY_RUN is set, the file is not rewritten.
OnlyEmptyCellsFilled ==
    FillDone =>
        /\ filled.csv.fieldnames = target_csv.fieldnames
        /\ Len(filled.csv.rows) = Len(target_csv.rows)
        /\ \A i \in DOMAIN target_csv.rows :
            /\ OtherColumns(filled.csv.rows[i]) = OtherColumns(target_csv.rows[i])
            /\ i \in ChangedRows =>
                /\ WouldFill(target_csv.rows[i])
                /\ filled.csv.rows[i][TargetCol] = ToString(docid_to_O[target_csv.rows[i].docid])
            /\ strip(target_csv.rows[i][TargetCol]) # "" =>
                filled.csv.rows[i] = target_csv.rows[i]
        /\ (DRY_RUN \/ \A i \in DOMAIN target_csv.rows : ~WouldFill(target_csv.rows[i])) =>
            /\ ~filled.rewritten
            /\ filled.csv = target_csv
        /\ ~filled.rewritten => filled.csv = target_csv

\* a run that rewrote the file, filled one cell and kept a label next to it
WitnessOnlyEmptyCellsFilled ==
    /\ FillDone
    /\ filled.rewritten
    /\ ChangedRows # {}
    /\ \E i \in DOMAIN target_csv.rows :
        /\ target_csv.rows[i][TargetCol] = "3"
        /\ target_csv.rows[i].docid \in DOMAIN docid_to_O

\* ------------------------------------------------------------ SpecLabel
\* The labelling loops of trec_dl_label_relevant_parts.py ("parts") and of
\* trec_dl_label_umbrela.py ("umbrela"): for every model, for every input
\* row, one bedrock.converse call.  One step is one pass through the body of
\* the inner loop, or the end of one of the two loops.  A KeyboardInterrupt
\* is taken where the scripts spend their time, inside bedrock.converse.
MaxModels == 2
MaxInputRows == 2
Scripts == {"parts", "umbrela"}
\* what a model answers: an object with a grade, or a refusal
LabelTexts == {[shape |-> "object", o |-> 2], [shape |-> "prose", o |-> NoO]}

LabelledRow(m, r, relevance) == [model |-> m, row |-> r, relevance |-> relevance]

\* the label the script takes from the response text: parts lines 157-161,
\* umbrela line 206
label_of(s, text) ==
    IF s = "parts" THEN llm_score(text) ELSE extract_o_score_from_text(text)

\* a loop that stays on the row whose call failed
after_failure_retrying(r) == r
\* "continue" in the except branch: the loop goes on with the next row
after_failure(r) == r + 1

InLoop ==
    /\ pc = "start"
    /\ model_i <= n_models
    /\ row_i <= n_rows

\* parts appends the row to OUTPUT_FILE at once (lines 136-137, 164-165);
\* umbrela appends it to results (lines 198, 208)
Emit(relevance) ==
    IF script = "parts"
    THEN /\ out_rows' = Append(out_rows, LabelledRow(model_i, row_i, relevance))
         /\ UNCHANGED results
    ELSE /\ results' = Append(results, LabelledRow(model_i, row_i, relevance))
         /\ UNCHANGED out_rows

InitLabel ==
    /\ pc = "start"
    /\ TauIdle
    /\ PairIdle
    /\ TableIdle
    /\ KappaIdle
    /\ MainIdle
    /\ ExtractIdle
    /\ FillIdle
    /\ LaterIdle
    /\ script \in Scripts
    /\ n_models \in 1..MaxModels
    /\ n_rows \in 0..MaxInputRows
    /\ model_i = 1
    /\ row_i = 1
    /\ calls = <<>>
    /\ results = <<>>
    /\ out_rows = <<>>
    /\ interrupts = {}

\* the call returns: the label is taken from the text and the row is emitted
\* (parts lines 131, 147-170; umbrela lines 186, 203-220)
CallReturns ==
    /\ InLoop
    /\ calls' = Append(calls, <<model_i, row_i>>)
    /\ \E text \in LabelTexts : Emit(label_of(script, text))
    /\ row_i' = row_i + 1
    /\ UNCHANGED <<pc, script, n_models, n_rows, model_i, interrupts, labelFrame>>

\* the call raises an Exception: a row with a blank label is emitted and the
\* loop continues (parts lines 132-141; umbrela lines 187-199)
CallRaises ==
    /\ InLoop
    /\ calls' = Append(calls, <<model_i, row_i>>)
    /\ Emit(None)
    /\ row_i' = after_failure(row_i)
    /\ UNCHANGED <<pc, script, n_models, n_rows, model_i, interrupts, labelFrame>>

\* KeyboardInterrupt during the call: parts breaks out of the loop over the
\* rows (lines 129-131), writes this model's log and goes on with the next
\* model; umbrela does not catch it and the run dies with results unwritten
CallInterrupted ==
    /\ InLoop
    /\ calls' = Append(calls, <<model_i, row_i>>)
    /\ IF script = "parts"
       THEN /\ interrupts' = interrupts \cup {model_i}
            /\ model_i' = model_i + 1
            /\ row_i' = 1
            /\ UNCHANGED pc
       ELSE /\ pc' = "killed"
            /\ UNCHANGED <<interrupts, model_i, row_i>>
    /\ UNCHANGED <<script, n_models, n_rows, results, out_rows, labelFrame>>

\* the loop over the rows is exhausted: umbrela writes results to the
\* model's CSV (lines 225-230), both write the log, the next model starts
EndOfRows ==
    /\ pc = "start"
    /\ model_i <= n_models
    /\ row_i = n_rows + 1
    /\ out_rows' = out_rows \o results
    /\ results' = <<>>
    /\ model_i' = model_i + 1
    /\ row_i' = 1
    /\ UNCHANGED <<pc, script, n_models, n_rows, calls, interrupts, labelFrame>>

\* the loop over MODELS is exhausted: the script ends
EndOfModels ==
    /\ pc = "start"
    /\ model_i = n_models + 1
    /\ pc' = "done"
    /\ UNCHANGED <<labelVars, labelFrame>>

NextLabel ==
    \/ CallReturns
    \/ CallRaises
    \/ CallInterrupted
    \/ EndOfRows
    \/ EndOfModels

SpecLabel == InitLabel /\ [][NextLabel]_vars

\* ------------------------------------------- claims on the labelling loop
\* the number of calls issued for row r under model m
CallsFor(m, r) == Cardinality({i \in DOMAIN calls : calls[i] = <<m, r>>})
\* calls[i] comes before calls[j] in the order of the two loops
Before(c1, c2) == c1[1] < c2[1] \/ (c1[1] = c2[1] /\ c1[2] < c2[2])
LabelRunning == script \in Scripts

\* C20 as stated: when the script has ended, every (model, input row) has had
\* exactly one inference call.
ExactlyOneCallPerRow ==
    (LabelRunning /\ pc = "done") =>
        \A m \in 1..n_models : \A r \in 1..n_rows : CallsFor(m, r) = 1

\* C20: the labelling loop issues at most one inference call per (model,
\* input row), in input order and without leaving out a row before a called
\* one; a row whose call failed or whose response could not be parsed gets no
\* second call; when the script has ended, every row has had exactly one
\* call under every model whose loop no KeyboardInterrupt ended.
OneCallPerRowInOrder ==
    LabelRunning =>
        /\ \A i, j \in DOMAIN calls : i < j => Before(calls[i], calls[j])
        /\ \A i \in DOMAIN calls :
            /\ calls[i][1] \in 1..n_models
            /\ calls[i][2] \in 1..n_rows
            /\ \A r \in 1..(calls[i][2] - 1) : CallsFor(calls[i][1], r) = 1
        /\ \A m \in 1..n_models : \A r \in 1..n_rows : CallsFor(m, r) <= 1
        /\ pc = "done" =>
            \A m \in (1..n_models) \ interrupts : \A r \in 1..n_rows : CallsFor(m, r) = 1

\* an ended run of parts in which a KeyboardInterrupt cut one model short,
\* another model went through every row, and a call gave no label
WitnessOneCallPerRowInOrder ==
    /\ pc = "done"
    /\ script = "parts"
    /\ n_rows >= 2
    /\ interrupts # {}
    /\ (1..n_models) \ interrupts # {}
    /\ \E m \in interrupts : \E r \in 1..n_rows : CallsFor(m, r) = 0
    /\ \E i \in DOMAIN out_rows : out_rows[i].relevance.none

\* ------------------------------------------------------------ SpecParts
\* Two instances of trec_dl_label_relevant_parts.py started on different
\* part ranges with the same OUTPUT_FILE.  A step of an instance is one
\* system call on the file: the exists() test, the open("w") that creates or
\* truncates it, the write of the header when that handle is closed, and the
\* append of one labelled row (open("a"), one write, close).  One model is
\* run; a call that fails appends a row as well (lines 136-137).
MaxInstances == 2
Instances == 1..MaxInstances
Header == [inst |-> 0, idx |-> 0]
DataRow(i, k) == [inst |-> i, idx |-> k]
NoFile == [exists |-> FALSE, lines |-> <<>>]
FileOf(lines) == [exists |-> TRUE, lines |-> lines]

Instance(at, n) == [at |-> at, n |-> n, idx |-> 1]

InitParts ==
    /\ pc = "start"
    /\ partsRestIdle
    /\ OUTPUT_FILE \in {NoFile, FileOf(<<Header>>)}
    /\ instances \in [Instances -> {Instance("exists", n) : n \in 1..MaxInputRows}]

\* line 102: if not OUTPUT_FILE.exists()
CheckExists(i) ==
    /\ instances[i].at = "exists"
    /\ instances' = [instances EXCEPT ![i].at =
                        IF OUTPUT_FILE.exists THEN "loop" ELSE "open_w"]
    /\ UNCHANGED <<pc, OUTPUT_FILE, partsFrame>>

\* line 103: OUTPUT_FILE.open("w") creates the file or cuts it to length 0
OpenForWrite(i) ==
    /\ instances[i].at = "open_w"
    /\ OUTPUT_FILE' = FileOf(<<>>)
    /\ instances' = [instances EXCEPT ![i].at = "write_header"]
    /\ UNCHANGED <<pc, partsFrame>>

\* lines 104-105: the header leaves the buffer when the with block closes
\* the handle, and lands at offset 0, over whatever stands there by then
WriteHeader(i) ==
    /\ instances[i].at = "write_header"
    /\ OUTPUT_FILE' = FileOf(IF OUTPUT_FILE.lines = <<>> THEN <<Header>>
                             ELSE [OUTPUT_FILE.lines EXCEPT ![1] = Header])
    /\ instances' = [instances EXCEPT ![i].at = "loop"]
    /\ UNCHANGED <<pc, partsFrame>>

\* lines 136-137 and 164-165: one row appended at the end of the file
AppendRow(i) ==
    /\ instances[i].at = "loop"
    /\ instances[i].idx <= instances[i].n
    /\ OUTPUT_FILE' = FileOf(Append(OUTPUT_FILE.lines, DataRow(i, instances[i].idx)))
    /\ instances' = [instances EXCEPT ![i].idx = @ + 1]
    /\ UNCHANGED <<pc, partsFrame>>

\* the loop over data_rows is exhausted
EndOfInstance(i) ==
    /\ instances[i].at = "loop"
    /\ instances[i].idx = instances[i].n + 1
    /\ instances' = [instances EXCEPT ![i].at = "done"]
    /\ UNCHANGED <<pc, OUTPUT_FILE, partsFrame>>

NextParts ==
    \/ \E i \in Instances : CheckExists(i)
    \/ \E i \in Instances : OpenForWrite(i)
    \/ \E i \in Instances : WriteHeader(i)
    \/ \E i \in Instances : AppendRow(i)
    \/ \E i \in Instances : EndOfInstance(i)

SpecParts == InitParts /\ [][NextParts]_vars

\* ------------------------------------------- claims on the shared file
PartsRunning == DOMAIN instances = Instances
AllInstancesDone == PartsRunning /\ \A i \in Instances : instances[i].at = "done"
LinesOf(row) == {k \in DOMAIN OUTPUT_FILE.lines : OUTPUT_FILE.lines[k] = row}

\* C21: when both instances have ended, the labels file is one header row
\* followed by exactly one data row for every input row either instance
\* processed, under every interleaving.
SharedFileComplete ==
    AllInstancesDone =>
        /\ OUTPUT_FILE.lines # <<>>
        /\ LinesOf(Header) = {1}
        /\ \A i \in Instances : \A k \in 1..instances[i].n :
            Cardinality(LinesOf(DataRow(i, k))) = 1

\* ---------------------------------------------------------- SpecCleaner
\* utility_all_docs_cleaner.py: drop the rows without a label, then the rows
\* whose docid was already written.  The header has the four required
\* columns; a row is its docid and relevance cells (query and passage are
\* copied with the row).
MaxCleanRows == 3
CleanRows ==
    {[docid |-> d, relevance |-> r] : d \in {"1", " 1", "2"}, r \in {"", " ", "2", "3"}}

\* the test that leaves a label of blanks in the output
missing_label_unstripped(row) == row.relevance = ""
\* lines 47-48: label = (row.get("relevance") or "").strip(); label == ""
missing_label(row) == strip(row.relevance) = ""

\* the loop of lines 45-59 over the first k rows
RECURSIVE clean_loop(_, _)
clean_loop(rows, k) ==
    IF k = 0
    THEN [rows |-> <<>>, seen_docids |-> {}, kept |-> 0,
          skipped_missing_label |-> 0, skipped_duplicate_docid |-> 0]
    ELSE LET acc == clean_loop(rows, k - 1)
             docid == strip(rows[k].docid)
         IN IF missing_label(rows[k])
            THEN [acc EXCEPT !.skipped_missing_label = @ + 1]
            ELSE IF docid \in acc.seen_docids
            THEN [acc EXCEPT !.skipped_duplicate_docid = @ + 1]
            ELSE [acc EXCEPT !.seen_docids = @ \cup {docid},
                             !.rows = Append(@, rows[k]),
                             !.kept = @ + 1]

InitCleaner ==
    /\ pc = "start"
    /\ cleanerRestIdle
    /\ clean_in \in UNION {[1..n -> CleanRows] : n \in 0..MaxCleanRows}
    /\ clean_out = <<>>
    /\ clean_again = <<>>

\* one run of the script on INPUT_FILE
Clean ==
    /\ pc = "start"
    /\ clean_out' = clean_loop(clean_in, Len(clean_in))
    /\ pc' = "cleaned"
    /\ UNCHANGED <<clean_in, clean_again, cleanerFrame>>

\* a second run, with the file the first run wrote as INPUT_FILE
CleanAgain ==
    /\ pc = "cleaned"
    /\ clean_again' = clean_loop(clean_out.rows, Len(clean_out.rows))
    /\ pc' = "recleaned"
    /\ UNCHANGED <<clean_in, clean_out, cleanerFrame>>

NextCleaner ==
    \/ Clean
    \/ CleanAgain

SpecCleaner == InitCleaner /\ [][NextCleaner]_vars

\* ----------------------------------------------- claims on the cleaner
CleanerDone == pc \in {"cleaned", "recleaned"}
HasLabel(row) == strip(row.relevance) # ""
\* the first input row with a label for the docid d
FirstLabelled(d) ==
    CHOOSE k \in DOMAIN clean_in :
        /\ HasLabel(clean_in[k]) /\ strip(clean_in[k].docid) = d
        /\ \A j \in 1..(k - 1) : ~(HasLabel(clean_in[j]) /\ strip(clean_in[j].docid) = d)
LabelledDocids == {strip(clean_in[k].docid) : k \in {j \in DOMAIN clean_in : HasLabel(clean_in[j])}}
\* the input positions of the rows of the output, in output order
KeptPositions == [i \in DOMAIN clean_out.rows |->
    FirstLabelled(strip(clean_out.rows[i].docid))]

\* C22: the cleaner's output has no row with a blank relevance and no docid
\* twice; the row kept for a docid is the first input row of that docid that
\* has a label; kept rows stay in input order; kept + skipped_missing_label +
\* skipped_duplicate_docid is the number of input rows; cleaning the cleaned
\* file returns it unchanged.
CleanerKeepsFirstLabelled ==
    CleanerDone =>
        /\ \A i \in DOMAIN clean_out.rows : HasLabel(clean_out.rows[i])
        /\ \A i, j \in DOMAIN clean_out.rows :
            i # j => strip(clean_out.rows[i].docid) # strip(clean_out.rows[j].docid)
        /\ {strip(clean_out.rows[i].docid) : i \in DOMAIN clean_out.rows} = LabelledDocids
        /\ \A i \in DOMAIN clean_out.rows : clean_out.rows[i] = clean_in[KeptPositions[i]]
        /\ \A i, j \in DOMAIN clean_out.rows : i < j => KeptPositions[i] < KeptPositions[j]
        /\ clean_out.kept = Len(clean_out.rows)
        /\ clean_out.kept + clean_out.skipped_missing_label
              + clean_out.skipped_duplicate_docid = Len(clean_in)
        /\ pc = "recleaned" =>
            /\ clean_again.rows = clean_out.rows
            /\ clean_again.kept = clean_out.kept
            /\ clean_again.skipped_missing_label = 0
            /\ clean_again.skipped_duplicate_docid = 0

\* a file with an unlabelled row, a duplicate and a kept row, cleaned twice
WitnessCleanerKeepsFirstLabelled ==
    /\ pc = "recleaned"
    /\ clean_out.kept > 0
    /\ clean_out.skipped_missing_label > 0
    /\ clean_out.skipped_duplicate_docid > 0

\* ---------------------------------------------------------- SpecMissing
\* trec_dl_label_missing.py, run one or more times on the same missing list
\* and target file.  A step is the start of a run (the target's docids are
\* loaded), one pass of the loop over data_rows, the normal end of a run, or
\* its abort.  Rows are written through a buffered handle: an exception
\* closes the handle and every row of the run reaches the disk, a killed
\* process may leave only the first rows of the run there.
MaxMissing == 3
MaxRuns == 2
MissingDocids == {"", "1", "2"}

NotRunning(r, cs) ==
    [at |-> "idle", run |-> r, idx |-> 0, existing_docids |-> {},
     at_start |-> {}, written |-> <<>>, calls |-> cs]
SetOf(seq) == {seq[i] : i \in DOMAIN seq}

\* ends the loop without recording the docid judged
remember_nothing(existing, docid) == existing
\* line 184: existing_docids.add(docid)
remember(existing, docid) == existing \cup {docid}

InitMissing ==
    /\ pc = "start"
    /\ missingRestIdle
    /\ MISSING_CSV \in UNION {[1..n -> MissingDocids] : n \in 0..MaxMissing}
    /\ TARGET_ALL_DOCS \in {<<>>, <<"1">>}
    /\ backfill = NotRunning(0, <<>>)

\* lines 111-122: existing_docids is read from the target file
StartRun ==
    /\ backfill.at = "idle"
    /\ backfill.run < MaxRuns
    /\ backfill' = [at |-> "loop", run |-> backfill.run + 1, idx |-> 1,
                    existing_docids |-> SetOf(TARGET_ALL_DOCS) \ {""},
                    at_start |-> SetOf(TARGET_ALL_DOCS),
                    written |-> <<>>, calls |-> backfill.calls]
    /\ UNCHANGED <<pc, MISSING_CSV, TARGET_ALL_DOCS, missingFrame>>

\* lines 145-151: a blank docid or one in existing_docids is passed over
SkipRow ==
    /\ backfill.at = "loop"
    /\ backfill.idx <= Len(MISSING_CSV)
    /\ LET docid == MISSING_CSV[backfill.idx]
       IN /\ docid = "" \/ docid \in backfill.existing_docids
          /\ backfill' = [backfill EXCEPT !.idx = @ + 1]
    /\ UNCHANGED <<pc, MISSING_CSV, TARGET_ALL_DOCS, missingFrame>>

\* lines 153-184: the call returns, the row is handed to the writer
JudgeRow ==
    /\ backfill.at = "loop"
    /\ backfill.idx <= Len(MISSING_CSV)
    /\ LET docid == MISSING_CSV[backfill.idx]
       IN /\ ~(docid = "" \/ docid \in backfill.existing_docids)
          /\ backfill' = [backfill EXCEPT
                !.idx = @ + 1,
                !.calls = Append(@, [run |-> backfill.run, docid |-> docid]),
                !.written = Append(@, docid),
                !.existing_docids = remember(@, docid)]
    /\ UNCHANGED <<pc, MISSING_CSV, TARGET_ALL_DOCS, missingFrame>>

\* line 163 raises (the call is not in a try): the finally branch closes the
\* handle, the rows written so far are on disk, the run is over
CallRaisesInRun ==
    /\ backfill.at = "loop"
    /\ backfill.idx <= Len(MISSING_CSV)
    /\ LET docid == MISSING_CSV[backfill.idx]
       IN /\ ~(docid = "" \/ docid \in backfill.existing_docids)
          /\ TARGET_ALL_DOCS' = TARGET_ALL_DOCS \o backfill.written
          /\ backfill' = NotRunning(backfill.run,
                Append(backfill.calls, [run |-> backfill.run, docid |-> docid]))
    /\ UNCHANGED <<pc, MISSING_CSV, missingFrame>>

\* the process is killed: of the rows of this run, the first j are on disk
Killed ==
    /\ backfill.at = "loop"
    /\ \E j \in 0..Len(backfill.written) :
        TARGET_ALL_DOCS' = TARGET_ALL_DOCS \o SubSeq(backfill.written, 1, j)
    /\ backfill' = NotRunning(backfill.run, backfill.calls)
    /\ UNCHANGED <<pc, MISSING_CSV, missingFrame>>

\* the loop is exhausted: line 198 closes the handle
EndRun ==
    /\ backfill.at = "loop"
    /\ backfill.idx = Len(MISSING_CSV) + 1
    /\ TARGET_ALL_DOCS' = TARGET_ALL_DOCS \o backfill.written
    /\ backfill' = NotRunning(backfill.run, backfill.calls)
    /\ UNCHANGED <<pc, MISSING_CSV, missingFrame>>

NextMissing ==
    \/ StartRun
    \/ SkipRow
    \/ JudgeRow
    \/ CallRaisesInRun
    \/ Killed
    \/ EndRun

SpecMissing == InitMissing /\ [][NextMissing]_vars

\* ------------------------------------------------ claims on the backfill
MissingRunning == DOMAIN backfill # {}
Occurrences(seq, x) == Cardinality({i \in DOMAIN seq : seq[i] = x})
\* the rows of the target file once the handle of the run is closed
TargetRows == TARGET_ALL_DOCS \o backfill.written

\* C23: in a run, a docid that is blank or already in the target file gets no
\* call and no appended row; a docid that occurs several times in the
\* missing list gets one appended row; over the runs, aborted ones included,
\* no docid is appended to the target file more than once.
NoDocidAppendedTwice ==
    MissingRunning =>
        /\ \A d \in MissingDocids : Occurrences(TargetRows, d) <= 1
        /\ Occurrences(TargetRows, "") = 0
        /\ backfill.at = "loop" =>
            /\ \A i \in DOMAIN backfill.written :
                backfill.written[i] \notin backfill.at_start \cup {""}
            /\ \A i \in DOMAIN backfill.calls :
                backfill.calls[i].run = backfill.run =>
                    /\ backfill.calls[i].docid \notin backfill.at_start \cup {""}
                    /\ \A j \in DOMAIN backfill.calls :
                        (j # i /\ backfill.calls[j].run = backfill.run) =>
                            backfill.calls[j].docid # backfill.calls[i].docid
            /\ backfill.idx = Len(MISSING_CSV) + 1 =>
                \A d \in SetOf(MISSING_CSV) \ {""} : Occurrences(TargetRows, d) = 1

\* a second run after an aborted first one, on a list that names a docid
\* twice, at the end of its loop
WitnessNoDocidAppendedTwice ==
    /\ MissingRunning
    /\ backfill.at = "loop"
    /\ backfill.run = 2
    /\ backfill.idx = Len(MISSING_CSV) + 1
    /\ \E i, j \in DOMAIN MISSING_CSV : i < j /\ MISSING_CSV[i] = MISSING_CSV[j] /\ MISSING_CSV[i] = "2"
    /\ \E i \in DOMAIN backfill.calls : backfill.calls[i].run = 1
    /\ backfill.written # <<>>

\* ------------------------------------------------------------ SpecParse
\* The parsers of the retrieval text files: parse_txt_file_top2 of
\* csv_convert_20.py and parse_txt_file_irrelevant of csv_conver_irrelevant.py
\* and csv_convert_irrelevant_20.py (the same function in both).  A file is
\* a sequence of pieces: a Query: line, or a document block made of a header
\* "Doc n: docid (rel=r, score=s)", a Passage: marker, one text line and a
\* separator line, of which the marker and the separator may be missing.
\* The docid of a block is its position in the file; rel is "0", "1" or, for
\* an unjudged document, "None", which DOC_HEADER_RE does not match.
MaxPieces == 3
MAX_JUDGED_PER_QUERY == 2
Rels == {"0", "1", "None"}
Pieces ==
    {[kind |-> "query", q |-> q, rel |-> "None", marker |-> FALSE, sep |-> FALSE] : q \in 1..2}
    \cup {[kind |-> "block", q |-> 0, rel |-> r, marker |-> m, sep |-> s] :
            r \in Rels, m \in BOOLEAN, s \in BOOLEAN}

Line(kind, docid, v) == [kind |-> kind, docid |-> docid, v |-> v]
\* the lines of the piece at position i
LinesOfPiece(p, i) ==
    IF p.kind = "query" THEN <<Line("query", 0, ToString(p.q))>>
    ELSE <<Line("doc", i, p.rel)>>
         \o (IF p.marker THEN <<Line("marker", i, "")>> ELSE <<>>)
         \o <<Line("text", i, "")>>
         \o (IF p.sep THEN <<Line("sep", i, "")>> ELSE <<>>)
RECURSIVE LinesOfFile(_, _)
LinesOfFile(file, k) ==
    IF k = 0 THEN <<>> ELSE LinesOfFile(file, k - 1) \o LinesOfPiece(file[k], k)

NoPassage == [has |-> FALSE, text |-> <<>>]
EmptyPassage == [has |-> TRUE, text |-> <<>>]
\* the parser's variables before the first line; docid 0 and query "None"
\* stand for None
ParserStart ==
    [query |-> "None", current_doc |-> 0, current_rel |-> "None",
     current_passage |-> NoPassage, in_passage |-> FALSE, rows |-> <<>>, stopped |-> FALSE]

\* current_doc is not None and current_passage is not None and
\* str(current_rel).isdigit()
eligible(st) == st.current_doc # 0 /\ st.current_passage.has /\ st.current_rel # "None"
row_of(st) ==
    [query |-> st.query, docid |-> st.current_doc,
     passage |-> st.current_passage.text, relevance |-> st.current_rel]

\* a flush that takes every judged document
irrelevant_rel_any(rel) == rel # "None"
\* int(current_rel) == 0
irrelevant_rel(rel) == rel = "0"

\* what a parser appends when it finalizes the current document
flush(parser, st) ==
    IF parser = "top2"
    THEN IF eligible(st) /\ Len(st.rows) < MAX_JUDGED_PER_QUERY
         THEN [st EXCEPT !.rows = Append(@, row_of(st))] ELSE st
    ELSE IF eligible(st) /\ irrelevant_rel(st.current_rel)
         THEN [st EXCEPT !.rows = Append(@, row_of(st))] ELSE st

\* the body of the loop over the lines
parse_line(parser, st, line) ==
    LET st1 ==
        CASE line.kind = "query" -> [st EXCEPT !.query = line.v]
          [] line.kind = "doc" ->
                IF line.v # "None"
                THEN [flush(parser, st) EXCEPT !.current_doc = line.docid,
                                               !.current_rel = line.v,
                                               !.current_passage = EmptyPassage,
                                               !.in_passage = FALSE]
                ELSE flush(parser, st)
          [] line.kind = "marker" ->
                [st EXCEPT !.in_passage = TRUE, !.current_passage = EmptyPassage]
          [] line.kind = "sep" ->
                [flush(parser, st) EXCEPT !.current_doc = 0, !.current_rel = "None",
                                          !.current_passage = NoPassage,
                                          !.in_passage = FALSE]
          [] OTHER ->
                IF st.in_passage
                THEN [st EXCEPT !.current_passage.text = Append(@, line.docid)]
                ELSE st
    IN IF parser = "top2" /\ Len(st1.rows) >= MAX_JUDGED_PER_QUERY
       THEN [st1 EXCEPT !.stopped = TRUE] ELSE st1

RECURSIVE parse_lines(_, _, _)
parse_lines(parser, lines, k) ==
    IF k = 0 THEN ParserStart
    ELSE LET st == parse_lines(parser, lines, k - 1)
         IN IF st.stopped THEN st ELSE parse_line(parser, st, lines[k])

\* the loop, the flush of the last document and the return
parse_txt_file(parser, file) ==
    LET lines == LinesOfFile(file, Len(file))
        st == flush(parser, parse_lines(parser, lines, Len(lines)))
    IN IF parser = "top2" /\ Len(st.rows) > MAX_JUDGED_PER_QUERY
       THEN SubSeq(st.rows, 1, MAX_JUDGED_PER_QUERY) ELSE st.rows

InitParse ==
    /\ pc = "start"
    /\ parseRestIdle
    /\ txt_file \in UNION {[1..n -> Pieces] : n \in 0..MaxPieces}
    /\ parsed = <<>>

\* parse_txt_file_top2, csv_convert_20.py lines 24-88
ParseTop2 ==
    /\ pc = "start"
    /\ parsed' = parse_txt_file("top2", txt_file)
    /\ pc' = "top2"
    /\ UNCHANGED <<txt_file, parseFrame>>

\* parse_txt_file_irrelevant, csv_conver_irrelevant.py lines 23-75
ParseIrrelevant ==
    /\ pc = "start"
    /\ parsed' = parse_txt_file("irrelevant", txt_file)
    /\ pc' = "irrelevant"
    /\ UNCHANGED <<txt_file, parseFrame>>

NextParse ==
    \/ ParseTop2
    \/ ParseIrrelevant

SpecParse == InitParse /\ [][NextParse]_vars

\* --------------------------------------------- claims on the text parsers
\* the positions of the blocks whose rel is one of rels
BlocksWith(rels) == {i \in DOMAIN txt_file : txt_file[i].kind = "block" /\ txt_file[i].rel \in rels}
RECURSIVE InFileOrder(_)
InFileOrder(S) ==
    IF S = {} THEN <<>>
    ELSE LET m == CHOOSE x \in S : \A y \in S : x <= y IN <<m>> \o InFileOrder(S \ {m})
FirstOf(seq, n) == IF Len(seq) > n THEN SubSeq(seq, 1, n) ELSE seq
DocidsOf(rows) == [i \in DOMAIN rows |-> rows[i].docid]

\* C24: parse_txt_file_top2 returns at most MAX_JUDGED_PER_QUERY rows for
\* any file; the rows are the first judged documents in file order, each
\* with an integer relevance, and no document is returned twice.
Top2FirstJudged ==
    pc = "top2" =>
        /\ Len(parsed) <= MAX_JUDGED_PER_QUERY
        /\ \A i \in DOMAIN parsed : parsed[i].relevance \in {"0", "1"}
        /\ \A i, j \in DOMAIN parsed : i # j => parsed[i].docid # parsed[j].docid
        /\ DocidsOf(parsed) = FirstOf(InFileOrder(BlocksWith({"0", "1"})), MAX_JUDGED_PER_QUERY)

\* every block has its header, its marker, its text and its separator
WellFormed(file) ==
    \A i \in DOMAIN file : file[i].kind = "block" => file[i].marker /\ file[i].sep
\* the query of the most recent Query: line before position i
RECURSIVE QueryAt(_, _)
QueryAt(file, i) ==
    IF i = 0 THEN "None"
    ELSE IF file[i].kind = "query" THEN ToString(file[i].q)
    ELSE QueryAt(file, i - 1)
\* the row of the block at position i
ExpectedRow(file, i) ==
    [query |-> QueryAt(file, i), docid |-> i, passage |-> <<i>>, relevance |-> file[i].rel]

MaxText == 5
Chars == {"a", " ", "\t"}
Snippet == <<"q", "?">>
isspace(c) == c \in {" ", "\t"}
At(s, i) == s[i + 1]
Slice(s, from, to) == SubSeq(s, from + 1, to)

\* the inner while of lines 25-26: the end of the whitespace run from i
RECURSIVE run_end(_, _)
run_end(s, j) == IF j < Len(s) /\ isspace(At(s, j)) THEN run_end(s, j + 1) ELSE j

\* the test without its i > 0 and its look at text[i-1]
between_words_at_start(s, i, j) == j < Len(s) /\ ~isspace(At(s, j))
\* line 27: i > 0 and j < n and not text[i-1].isspace() and not text[j].isspace()
between_words(s, i, j) ==
    i > 0 /\ j < Len(s) /\ ~isspace(At(s, i - 1)) /\ ~isspace(At(s, j))

InitInject ==
    /\ pc = "start"
    /\ injectRestIdle
    /\ inject_text \in UNION {[1..n -> Chars] : n \in 0..MaxText}
    /\ scan = [i |-> 0, positions |-> <<>>]
    /\ injected = <<>>

\* lines 23-29: text[i] is whitespace; the run is passed and its end
\* recorded if it stands between two words
ScanWhitespace ==
    /\ pc = "start"
    /\ scan.i < Len(inject_text)
    /\ isspace(At(inject_text, scan.i))
    /\ LET j == run_end(inject_text, scan.i)
       IN scan' = [i |-> j,
                   positions |-> IF between_words(inject_text, scan.i, j)
                                 THEN Append(scan.positions, j) ELSE scan.positions]
    /\ UNCHANGED <<pc, inject_text, injected, injectFrame>>

\* lines 30-31: i += 1
ScanWord ==
    /\ pc = "start"
    /\ scan.i < Len(inject_text)
    /\ ~isspace(At(inject_text, scan.i))
    /\ scan' = [scan EXCEPT !.i = @ + 1]
    /\ UNCHANGED <<pc, inject_text, injected, injectFrame>>

\* line 32: the loop condition fails, positions is returned
ScanReturns ==
    /\ pc = "start"
    /\ ~(scan.i < Len(inject_text))
    /\ pc' = "scanned"
    /\ UNCHANGED <<inject_text, scan, injected, injectFrame>>

\* inject_once, lines 34-39
InjectOnce ==
    /\ pc = "scanned"
    /\ IF scan.positions = <<>>
       THEN injected' = inject_text
       ELSE \E k \in DOMAIN scan.positions :
              LET idx == scan.positions[k]
              IN injected' = Slice(inject_text, 0, idx) \o Snippet \o <<" ">>
                                \o Slice(inject_text, idx, Len(inject_text))
    /\ pc' = "injected"
    /\ UNCHANGED <<inject_text, scan, injectFrame>>

NextInject ==
    \/ ScanWhitespace
    \/ ScanWord
    \/ ScanReturns
    \/ InjectOnce

SpecInject == InitInject /\ [][NextInject]_vars
\* the interpreter goes on running the function until it returns
SpecInjectFair == SpecInject /\ WF_vars(NextInject)

\* ------------------------------------------------ claims on the injection
InjectRunning == DOMAIN scan # {}
\* index j lies strictly inside the text, at a non-whitespace character that
\* follows a whitespace run which a non-whitespace character precedes
BetweenWords(s, j) ==
    /\ 0 < j /\ j < Len(s)
    /\ ~isspace(At(s, j))
    /\ \E i \in 1..(j - 1) :
        /\ \A k \in i..(j - 1) : isspace(At(s, k))
        /\ ~isspace(At(s, i - 1))
InsertedAt(s, idx) == Slice(s, 0, idx) \o Snippet \o <<" ">> \o Slice(s, idx, Len(s))

InjectSafe ==
    InjectRunning =>
        /\ \A k \in DOMAIN scan.positions : BetweenWords(inject_text, scan.positions[k])
        /\ pc = "injected" =>
            IF \E j \in 0..Len(inject_text) : BetweenWords(inject_text, j)
            THEN \E j \in 0..Len(inject_text) :
                    BetweenWords(inject_text, j) /\ injected = InsertedAt(inject_text, j)
            ELSE injected = inject_text

\* C26: every index find_between_word_positions returns lies strictly inside
\* the text at a non-whitespace character right after a whitespace run that
\* follows a non-whitespace character; inject_once returns the text unchanged
\* if there is no such index and the text with snippet + one space inserted
\* at one such index otherwise; the scan ends for every text.
InjectBetweenWords == []InjectSafe /\ (InjectRunning ~> pc = "injected")

\* a text with leading whitespace, then two words two blanks apart, injected
WitnessInjectBetweenWords ==
    /\ pc = "injected"
    /\ Len(inject_text) >= 5
    /\ isspace(inject_text[1])
    /\ \E k \in DOMAIN scan.positions :
        isspace(At(inject_text, scan.positions[k] - 2))
    /\ injected # inject_text

\* ======================================================================
\* retrieve_until_min_judged: src/scripts/retrieve_doc_trec_dl.py 105-117,
\* src/retrieve_doc_trec_dl_10.py 86-96 (the plain variant) and
\* src/scripts/retrieve_doc_trec_dl_25_topics.py 103-118 (with desired_k)
\* ======================================================================
\* k_start and k_cap range over 1..MaxCap
MaxCap == 4
\* min_judged ranges over 0..MaxJudged
MaxJudged == 2
\* the documents that match the query
MaxCorpus == 4
\* the searches remembered in the variable searches
MaxSearches == 4

\* desired_k = None; "desired_k or 0" and "desired_k is None or len(hits) >=
\* desired_k" read None and 0 alike
NoDesired == 0
Variants == {"plain", "desired_k"}
\* the ranking of the matching documents, best first: TRUE for a docid in
\* judged_lookup
Rankings == UNION {[1..n -> BOOLEAN] : n \in 0..MaxCorpus}
RetrieveCalls ==
    {c \in [variant : Variants, k_start : 1..MaxCap, k_cap : 1..MaxCap,
            min_judged : 0..MaxJudged, desired_k : {NoDesired} \cup 1..(MaxCap + 1),
            ranking : Rankings] :
        c.variant = "plain" => c.desired_k = NoDesired}

\* searcher.search(query_text, k=depth): the best depth hits, fewer if fewer
\* documents match
search(ranking, depth) == SubSeq(ranking, 1, IF depth < Len(ranking) THEN depth ELSE Len(ranking))
\* sum(1 for h in hits if h.docid in judged_lookup)
judged_in(hits) == Cardinality({i \in DOMAIN hits : hits[i]})
Max(a, b) == IF a >= b THEN a ELSE b
\* a search at k itself
k_effective_at_k(c, kk) == kk
\* k_effective = max(k, desired_k or 0)
k_effective(c, kk) == Max(kk, c.desired_k)
\* the condition of the return
returns_plain(c, kk, hits) == judged_in(hits) >= c.min_judged \/ kk >= c.k_cap
returns_desired(c, kk, hits) ==
    /\ judged_in(hits) >= c.min_judged \/ kk >= c.k_cap
    /\ c.desired_k = NoDesired \/ Len(hits) >= c.desired_k
\* k = min(k * 2, k_cap)
doubled(c, kk) == IF kk * 2 <= c.k_cap THEN kk * 2 ELSE c.k_cap
\* k = min(max(k * 2, desired_k or k), k_cap)
grown(c, kk) ==
    LET want == Max(kk * 2, IF c.desired_k = NoDesired THEN kk ELSE c.desired_k)
    IN IF want <= c.k_cap THEN want ELSE c.k_cap
\* the searches issued, the oldest forgotten beyond MaxSearches
noted(depth, kk, hits) ==
    LET all == Append(searches, [depth |-> depth, k |-> kk, hits |-> hits])
    IN IF Len(all) > MaxSearches THEN Tail(all) ELSE all

\* the local variable hits after the search
last_hits == searches[Len(searches)].hits
RetrieveRunning == DOMAIN retrieve_call # {}

\* k = k_start
InitRetrieve ==
    /\ pc = "start"
    /\ retrieveRestIdle
    /\ retrieve_call \in RetrieveCalls
    /\ retrieve_k = retrieve_call.k_start
    /\ searches = <<>>
    /\ retrieved = <<>>

\* hits = searcher.search(query_text, k=k), and in the desired_k variant
\* hits = searcher.search(query_text, k=k_effective)
Search ==
    /\ pc = "start"
    /\ RetrieveRunning
    /\ LET depth == IF retrieve_call.variant = "plain" THEN retrieve_k
                    ELSE k_effective(retrieve_call, retrieve_k)
       IN searches' = noted(depth, retrieve_k, search(retrieve_call.ranking, depth))
    /\ pc' = "searched"
    /\ UNCHANGED <<retrieve_call, retrieve_k, retrieved, retrieveFrame>>

\* plain variant: the condition holds, return hits
PlainReturns ==
    /\ pc = "searched"
    /\ retrieve_call.variant = "plain"
    /\ returns_plain(retrieve_call, retrieve_k, last_hits)
    /\ retrieved' = last_hits
    /\ pc' = "returned"
    /\ UNCHANGED <<retrieve_call, retrieve_k, searches, retrieveFrame>>

\* plain variant: the condition fails, k = min(k * 2, k_cap)
PlainDoubles ==
    /\ pc = "searched"
    /\ retrieve_call.variant = "plain"
    /\ ~returns_plain(retrieve_call, retrieve_k, last_hits)
    /\ retrieve_k' = doubled(retrieve_call, retrieve_k)
    /\ pc' = "start"
    /\ UNCHANGED <<retrieve_call, searches, retrieved, retrieveFrame>>

\* desired_k variant: the condition holds, return hits
DesiredReturns ==
    /\ pc = "searched"
    /\ retrieve_call.variant = "desired_k"
    /\ returns_desired(retrieve_call, retrieve_k, last_hits)
    /\ retrieved' = last_hits
    /\ pc' = "returned"
    /\ UNCHANGED <<retrieve_call, retrieve_k, searches, retrieveFrame>>

\* desired_k variant: the condition fails,
\* k = min(max(k * 2, desired_k or k), k_cap)
DesiredGrows ==
    /\ pc = "searched"
    /\ retrieve_call.variant = "desired_k"
    /\ ~returns_desired(retrieve_call, retrieve_k, last_hits)
    /\ retrieve_k' = grown(retrieve_call, retrieve_k)
    /\ pc' = "start"
    /\ UNCHANGED <<retrieve_call, searches, retrieved, retrieveFrame>>

NextRetrieve ==
    \/ Search
    \/ PlainReturns
    \/ PlainDoubles
    \/ DesiredReturns
    \/ DesiredGrows

SpecRetrieve == InitRetrieve /\ [][NextRetrieve]_vars
\* the interpreter goes on running the loop until the function returns
SpecRetrieveFair == SpecRetrieve /\ WF_vars(NextRetrieve)

\* ------------------------------------------------ claims on the retrieval

\* C27: retrieve_until_min_judged returns after finitely many searches for
\* every k_start >= 1, k_cap >= 1, min_judged and every searcher that returns
\* at most the requested number of hits, in the plain variant and in the
\* variant with desired_k.
RetrieveReturns == RetrieveRunning ~> pc = "returned"

\* the part of C27 on the plain variant
PlainRetrieveReturns ==
    (RetrieveRunning /\ retrieve_call.variant = "plain") ~> pc = "returned"

\* no search has been forgotten: searches holds every search of the call
AllNoted == Len(searches) < MaxSearches
LastSearch == searches[Len(searches)]
\* the depth of search i of a loop that starts at k_start and doubles up to k_cap
DoublingDepth(c, i) == Min(c.k_start * 2^(i - 1), c.k_cap)
\* k in pass i of the desired_k variant: k_start, then max(2 * k_start,
\* desired_k), doubled from there on, capped at k_cap
DesiredK(c, i) ==
    IF i = 1 THEN c.k_start
    ELSE Min(Max(2 * c.k_start, c.desired_k) * 2^(i - 2), c.k_cap)

DoublesToCap ==
    /\ AllNoted => \A i \in DOMAIN searches :
                      searches[i].depth = DoublingDepth(retrieve_call, i)
    /\ \A i \in DOMAIN searches : searches[i].depth <= retrieve_call.k_cap
    /\ pc = "returned" =>
        /\ retrieved = LastSearch.hits
        /\ \/ judged_in(retrieved) >= retrieve_call.min_judged
           \/ LastSearch.depth = retrieve_call.k_cap

PlainAtCap ==
    /\ pc = "returned"
    /\ retrieve_call.variant = "plain"
    /\ Len(searches) = 3
    /\ LastSearch.depth = retrieve_call.k_cap
    /\ judged_in(retrieved) < retrieve_call.min_judged

====
